---- MODULE Spec2Model ----
(***************************************************************************)
(* Dynamic Schema Document Engine: document save pipeline (validation,     *)
(* pre_save / post_save signal receivers, hook dispatch), version engine   *)
(* (snapshot, diff, restore) and workflow engine (eligibility, transition  *)
(* execution, history logging), modelled over the persisted rows and the   *)
(* in-memory Document instance a request works on.                         *)
(***************************************************************************)
EXTENDS Integers, Sequences, FiniteSets, TLC

VARIABLES
    documents,          \* Document rows: pk -> [exists, data, version_number]
    versions,           \* DocumentVersion rows per document, in insertion order
    workflow_state,     \* DocumentWorkflowState.current_state per document, or NoState
    document_old_data,  \* signals._document_old_data: pk -> data, or NoData
    next_pk,            \* next auto-increment primary key of Document
    overflow_at,        \* where this deployment's interpreter stack overflows
    executed,           \* history: the transitions executed on each document
    tampered,           \* history: the versions altered behind the engine's back
    links,              \* DocumentLink and DocumentLinkMultiple rows
    doctype_row,        \* the Doctype row: [exists, schema, version]
    user_sessions,      \* UserSession rows, by primary key
    now,                \* the clock, in days
    registry,           \* the doctype of the documents: its schema fields and
                        \* its DoctypeHook rows
    inflight,           \* the request each worker is serving, statement by statement
    series_current_value, \* NamingSeries.current_value of the one naming series
    allocated,          \* history: the values get_next_value returned, in order
    lastOp              \* the request served last and what it returned

vars == <<documents, versions, workflow_state, document_old_data, next_pk,
          overflow_at, executed, tampered, links, doctype_row, user_sessions, now, registry, inflight,
          series_current_value,
          allocated, lastOp>>

\* what only the interleaved requests change
concurrentVars == <<inflight, series_current_value, allocated>>

----------------------------------------------------------------------------
(* Bounds of the model *)

\* Number of nested Document.save frames the interpreter stack holds before
\* a RecursionError is raised
RecursionLimit == 2

\* A writing request is served only while fewer version rows than this exist
MaxVersions == 3

\* Hooks may fail only while fewer failures than this are logged on a document
MaxLoggedFailures == 1

\* Stored versions are altered only while fewer than this have been altered
MaxTampered == 1

\* Naming series values are allocated only while fewer than this were returned
MaxAllocations == 3

\* Links are created only while fewer than this exist
MaxLinks == 2

\* The clock stops after this many days
MaxTime == 8

\* authentication/models.py: UserSession.save, timedelta(days=7)
SessionLifetime == 7

DocIds == {1}
Titles == {<<"a">>, <<"b">>}

(* Program constants *)

\* hook_engine.py: "Limit history to last 10 failures"
HookFailureLimit == 10

\* models.py: the choices of Document.docstatus
Draft == 0
Submitted == 1
Cancelled == 2

\* engine_models.py: NamingSeries.padding, default=4
SeriesPadding == 4

----------------------------------------------------------------------------
(* Data payloads: a JSON object is a function from its keys to values, and
   a value carries its Python type *)

\* a str, as the sequence of its characters
StrV(chars) == [t |-> "str", v |-> chars]

IntV(n) == [t |-> "int", v |-> n]

BoolV(b) == [t |-> "bool", v |-> b]

NoneV == [t |-> "none", v |-> 0]

ListV(items) == [t |-> "list", v |-> items]

\* bool is a subclass of int: True is 1 and False is 0 in a comparison
NumberOf(value) == IF value.t = "bool" THEN (IF value.v THEN 1 ELSE 0) ELSE value.v

\* Python's a == b
PyEq(a, b) ==
    IF a.t \in {"int", "bool"} /\ b.t \in {"int", "bool"}
    THEN NumberOf(a) = NumberOf(b)
    ELSE a = b

EmptyData == [k \in {} |-> NoneV]

\* Python's == of two dicts
PyDictEq(a, b) == DOMAIN a = DOMAIN b /\ \A k \in DOMAIN a : PyEq(a[k], b[k])

NoData == [absent |-> TRUE]

HasKey(data, key) == key \in DOMAIN data

\* data[key] = value
SetKey(data, key, value) ==
    [k \in (DOMAIN data) \cup {key} |-> IF k = key THEN value ELSE data[k]]

\* data.get(key, default)
GetKey(data, key, default) == IF HasKey(data, key) THEN data[key] ELSE default

\* no Doctype row is stored
NoDoctype == [exists |-> FALSE, schema |-> [kind |-> "none"], version |-> 0]

NoRow == [exists |-> FALSE, data |-> EmptyData, version_number |-> 0, docstatus |-> 0]

\* Sequencing of the statements of a function body: the value of Rest for the
\* value x the statement before it produced
Only(S) == CHOOSE x \in S : TRUE
Then(value, Rest(_)) == Only({Rest(x) : x \in {value}})

\* Python's exceptions, "" when none is raised
NoExc == ""

----------------------------------------------------------------------------
(* Doctype schema and validation *)

\* Doctype.schema['fields'] of the one doctype of the model
SchemaFields == << [name |-> "title", type |-> "string", required |-> TRUE] >>

DigitOf ==
    [c \in {"0", "1", "2", "3", "4", "5", "6", "7", "8", "9"} |->
        CASE c = "0" -> 0 [] c = "1" -> 1 [] c = "2" -> 2 [] c = "3" -> 3
          [] c = "4" -> 4 [] c = "5" -> 5 [] c = "6" -> 6 [] c = "7" -> 7
          [] c = "8" -> 8 [] c = "9" -> 9]

RECURSIVE lstrip(_)
lstrip(chars) ==
    IF chars # << >> /\ Head(chars) = " " THEN lstrip(Tail(chars)) ELSE chars

RECURSIVE rstrip(_)
rstrip(chars) ==
    IF chars # << >> /\ chars[Len(chars)] = " "
    THEN rstrip(SubSeq(chars, 1, Len(chars) - 1))
    ELSE chars

RECURSIVE DecimalValue(_)
DecimalValue(digits) ==
    IF digits = << >> THEN 0
    ELSE 10 * DecimalValue(SubSeq(digits, 1, Len(digits) - 1))
             + DigitOf[digits[Len(digits)]]

\* Python's int(s) of a str: white space around is dropped, then an optional
\* sign and decimal digits; anything else is a ValueError (ok = FALSE)
ParseInt(chars) ==
    Then(rstrip(lstrip(chars)), LAMBDA s :
    Then(s # << >> /\ Head(s) \in {"+", "-"}, LAMBDA signed :
    Then(IF signed THEN Tail(s) ELSE s, LAMBDA body :
    IF body = << >> \/ \E i \in 1..Len(body) : body[i] \notin DOMAIN DigitOf
    THEN [ok |-> FALSE, value |-> 0]
    ELSE [ok |-> TRUE,
          value |-> IF signed /\ Head(s) = "-"
                    THEN 0 - DecimalValue(body) ELSE DecimalValue(body)])))

\* Python's int(value): a ValueError or a TypeError is ok = FALSE
int(value) ==
    CASE value.t = "str"  -> ParseInt(value.v)
      [] value.t \in {"int", "bool"} -> [ok |-> TRUE, value |-> NumberOf(value)]
      [] OTHER -> [ok |-> FALSE, value |-> 0]

\* isinstance(value, int): a bool is an int
IsInstanceInt(value) == value.t \in {"int", "bool"}

\* The loop of Document.validate_data over the fields of a schema, from field
\* i on: the error raised, if any, and the data as the loop left it
RECURSIVE validate_fields(_, _, _)
validate_fields(fields, data, i) ==
    IF i > Len(fields)
    THEN [exc |-> NoExc, data |-> data]
    ELSE Then(fields[i], LAMBDA field_config :
         IF field_config.required /\ ~HasKey(data, field_config.name)
         THEN [exc |-> "ValidationError", data |-> data]
         ELSE IF ~HasKey(data, field_config.name)
         THEN validate_fields(fields, data, i + 1)
         ELSE Then(data[field_config.name], LAMBDA value :
              IF field_config.type = "integer" /\ ~IsInstanceInt(value)
              THEN Then(int(value), LAMBDA converted :
                   IF converted.ok
                   THEN Then(SetKey(data, field_config.name, IntV(converted.value)),
                             LAMBDA coerced : validate_fields(fields, coerced, i + 1))
                   ELSE [exc |-> "ValidationError", data |-> data])
              ELSE IF field_config.type = "boolean" /\ value.t # "bool"
              THEN [exc |-> "ValidationError", data |-> data]
              ELSE validate_fields(fields, data, i + 1)))

\* a validation that lets every payload pass
validate_data_accepting(data) == NoExc

\* Document.validate_data for the doctype of the documents: the error it
\* raises, NoExc when the payload passes.  The doctype has no integer field,
\* so the data is left as it was.
validate_data(data) == validate_fields(registry.fields, data, 1).exc

----------------------------------------------------------------------------
(* Version engine: diff *)

\* a diff that never reports an added key
calculate_changes_no_added(old_data, new_data) ==
    [ added    |-> EmptyData,
      modified |-> [k \in {x \in (DOMAIN new_data) \cap (DOMAIN old_data) :
                               ~PyEq(old_data[x], new_data[x])}
                       |-> [old |-> old_data[k], new |-> new_data[k]]],
      removed  |-> [k \in (DOMAIN old_data) \ (DOMAIN new_data) |-> old_data[k]] ]

\* VersionEngine._calculate_changes
calculate_changes(old_data, new_data) ==
    [ added    |-> [k \in (DOMAIN new_data) \ (DOMAIN old_data) |-> new_data[k]],
      modified |-> [k \in {x \in (DOMAIN new_data) \cap (DOMAIN old_data) :
                               ~PyEq(old_data[x], new_data[x])}
                       |-> [old |-> old_data[k], new |-> new_data[k]]],
      removed  |-> [k \in (DOMAIN old_data) \ (DOMAIN new_data) |-> old_data[k]] ]

\* DocumentVersion.objects.filter(document=d).order_by('-version_number').first()
HasVersions(vs) == Len(vs) > 0

LatestVersion(vs) ==
    CHOOSE v \in {vs[i] : i \in 1..Len(vs)} :
        \A j \in 1..Len(vs) : vs[j].version_number <= v.version_number

----------------------------------------------------------------------------
(* Hook engine *)

\* DoctypeHook rows of the doctype: one webhook per lifecycle event.  Whether
\* the endpoint answers or the request fails is decided per execution.
\* a row of DoctypeHook
HookDef(id, doctype, hook_type, order, is_active, condition) ==
    [id |-> id, doctype |-> doctype, hook_type |-> hook_type, order |-> order,
     is_active |-> is_active, condition |-> condition, python_code |-> ""]

DoctypeHooks ==
    { HookDef(1, "Document", "before_insert", 0, TRUE, ""),
      HookDef(2, "Document", "before_save", 0, TRUE, ""),
      HookDef(3, "Document", "after_insert", 0, TRUE, ""),
      HookDef(4, "Document", "after_save", 0, TRUE, ""),
      HookDef(5, "Document", "on_change", 0, TRUE, ""),
      HookDef(6, "Document", "before_delete", 0, TRUE, ""),
      HookDef(7, "Document", "after_delete", 0, TRUE, "") }

IsBefore(hook_type) ==
    hook_type \in {"before_insert", "before_save", "before_delete"}

\* HookEngine._log_hook_failure on the in-memory data
log_hook_failure(data, hook) ==
    LET cur   == GetKey(data, "hook_failures", ListV(<< >>)).v
        added == Append(cur, [hook_id |-> hook.id, hook_type |-> hook.hook_type])
        kept  == IF Len(added) > HookFailureLimit
                 THEN SubSeq(added, Len(added) - HookFailureLimit + 1, Len(added))
                 ELSE added
    IN  SetKey(data, "hook_failures", ListV(kept))

\* What the environment decides during one request: which execution of a
\* before_* hook or of an after_* / on_change hook fails, if any (the endpoint
\* of a webhook is unreachable)
Oracles ==
    [ phase : {"none"}, at : {0}, answer : {"ok"} ]
    \cup
    [ phase : {"before", "after"}, at : 1..RecursionLimit, answer : {"unreachable"} ]

\* The frame in which the RecursionError is raised once RecursionLimit
\* Document.save frames are on the stack: inside create_version before it
\* inserts its row, or inside the Document.save it calls, before the UPDATE
OverflowPlaces == {"create_version", "save"}

NoHookFails == [phase |-> "none", at |-> 0, answer |-> "ok"]

NoFailure(o) == o = NoHookFails

\* the execution the environment's decision is about
Pointed(w, o, hook) ==
    IF IsBefore(hook.hook_type)
    THEN o.phase = "before" /\ o.at = w.nBefore + 1
    ELSE o.phase = "after" /\ o.at = w.nAfter + 1

\* HookEngine._execute_webhook_hook: requests.post raises a RequestException
\* when no response arrives; a response of any status is returned
WebhookRaises(answer) == answer = "unreachable"

HookFails(w, o, hook) == Pointed(w, o, hook) /\ WebhookRaises(o.answer)

\* an evaluation that takes an expression that raises for a condition met
evaluate_condition_error_is_met(condition) == condition # "unmet"

\* HookEngine._evaluate_condition: bool(eval(condition)), False when the
\* expression raises
evaluate_condition(condition) == condition = "met"

\* hook.condition and not self._evaluate_condition(hook.condition)
ConditionNotMet(hook) == hook.condition # "" /\ ~evaluate_condition(hook.condition)

\* a loop that logs the failure of a before hook and goes on
ExecuteOneHook_no_raise(w, o, hook) ==
    IF HookFails(w, o, hook)
    THEN [w EXCEPT
            !.nBefore = IF IsBefore(hook.hook_type) THEN @ + 1 ELSE @,
            !.nAfter = IF IsBefore(hook.hook_type) THEN @ ELSE @ + 1,
            !.inst.data = log_hook_failure(@, hook),
            !.beforeFailed = @ \/ IsBefore(hook.hook_type),
            !.afterFailed = @ \/ ~IsBefore(hook.hook_type)]
    ELSE [w EXCEPT
            !.nBefore = IF IsBefore(hook.hook_type) THEN @ + 1 ELSE @,
            !.nAfter = IF IsBefore(hook.hook_type) THEN @ ELSE @ + 1]

RECURSIVE DocumentSave(_, _, _)

\* exec(hook.python_code, {"__builtins__": {}}, context) for the scripts of
\* the model; context holds the Document instance and its data dict
exec(w, o, python_code) ==
    CASE python_code = "data.pop('title', None)" ->
             [w EXCEPT !.inst.data = [k \in DOMAIN @ \ {"title"} |-> @[k]]]
      [] python_code = "data['title'] = 'b'" ->
             [w EXCEPT !.inst.data = SetKey(@, "title", StrV(<<"b">>))]
      [] python_code = "document.save()" -> DocumentSave(w, o, TRUE)
      [] OTHER -> w

\* HookEngine._execute_hook: a python hook runs its code and raises
\* HookExecutionError for whatever the code raises; a webhook raises when no
\* response arrives
execute_hook(w, o, hook) ==
    IF HookFails(w, o, hook)
    THEN [w EXCEPT !.exc = "HookExecutionError"]
    ELSE IF hook.python_code = ""
    THEN w
    ELSE Then(exec(w, o, hook.python_code), LAMBDA ran :
         [ran EXCEPT !.exc = IF @ # NoExc THEN "HookExecutionError" ELSE NoExc])

\* one iteration of the loop of HookEngine.execute_hooks
ExecuteOneHook(w, o, hook) ==
    IF ConditionNotMet(hook)
    THEN w
    ELSE Then(execute_hook(w, o, hook), LAMBDA r :
    IF r.exc # NoExc
    THEN [r EXCEPT
            !.nBefore = IF IsBefore(hook.hook_type) THEN @ + 1 ELSE @,
            !.nAfter = IF IsBefore(hook.hook_type) THEN @ ELSE @ + 1,
            !.inst.data = log_hook_failure(@, hook),
            !.ran = Append(@, [hook_id |-> hook.id, success |-> FALSE]),
            !.exc = IF IsBefore(hook.hook_type) THEN "HookExecutionError" ELSE NoExc,
            !.beforeFailed = @ \/ IsBefore(hook.hook_type),
            !.afterFailed = @ \/ ~IsBefore(hook.hook_type)]
    ELSE [r EXCEPT
            !.nBefore = IF IsBefore(hook.hook_type) THEN @ + 1 ELSE @,
            !.nAfter = IF IsBefore(hook.hook_type) THEN @ ELSE @ + 1,
            !.ran = Append(@, [hook_id |-> hook.id, success |-> TRUE])])

\* a filter that takes the hooks of every doctype
MatchingHooks_any_doctype(table, doctype, hook_type) ==
    {h \in table : h.hook_type = hook_type /\ h.is_active}

\* DoctypeHook.objects.filter(doctype=..., hook_type=..., is_active=True)
MatchingHooks(table, doctype, hook_type) ==
    {h \in table : h.doctype = doctype /\ h.hook_type = hook_type /\ h.is_active}

\* .order_by('order'): the orders in which the database may return the rows;
\* rows of equal order come in any order
OrderByOrder(rows) ==
    { hooks \in [1..Cardinality(rows) -> rows] :
        /\ \A i, j \in 1..Cardinality(rows) : i # j => hooks[i] # hooks[j]
        /\ \A i, j \in 1..Cardinality(rows) : i < j => hooks[i].order <= hooks[j].order }

\* the hooks of the doctype of the model, which has one hook per hook type
ActiveHooks(hook_type) ==
    Only(OrderByOrder(MatchingHooks(registry.hooks, "Document", hook_type)))

RECURSIVE RunHooks(_, _, _, _)
RunHooks(w, o, hooks, i) ==
    IF i > Len(hooks) \/ w.exc # NoExc
    THEN w
    ELSE Then(ExecuteOneHook(w, o, hooks[i]),
              LAMBDA w1 : RunHooks(w1, o, hooks, i + 1))

\* HookEngine.execute_hooks
execute_hooks(w, o, hook_type) == RunHooks(w, o, ActiveHooks(hook_type), 1)

----------------------------------------------------------------------------
(* User sessions *)

\* primary keys of the UserSession rows
SessionIds == {1, 2}

NoSession == [exists |-> FALSE, user |-> "", is_active |-> FALSE, expires_at |-> 0]

\* UserSession.is_valid
is_valid(session, today) == session.is_active /\ today < session.expires_at

\* a deactivation that is not saved
deactivate_not_saved(session) == session

\* UserSession.deactivate
deactivate(session) == [session EXCEPT !.is_active = FALSE]

----------------------------------------------------------------------------
(* The state a request works on: the persisted rows, the module global of  *)
(* signals.py, the in-memory Document instance, the depth of the stack of  *)
(* Document.save frames, and the exception being propagated.               *)

World(inst) ==
    [ documents |-> documents, versions |-> versions,
      workflow_state |-> workflow_state, links |-> links,
      document_old_data |-> document_old_data, next_pk |-> next_pk,
      overflow_at |-> overflow_at, inst |-> inst, depth |-> 0, nBefore |-> 0, nAfter |-> 0, exc |-> NoExc,
      beforeFailed |-> FALSE, afterFailed |-> FALSE, onChange |-> FALSE,
      ran |-> << >>, log |-> << >> ]

\* Document.objects.get(pk=...) / get_object_or_404(Document, id=...)
LoadDocument(d) ==
    [pk |-> d, data |-> documents[d].data,
     version_number |-> documents[d].version_number,
     docstatus |-> documents[d].docstatus]

RowOf(w) == IF w.inst.pk = 0 THEN NoRow ELSE w.documents[w.inst.pk]

VersionsOf(w) == IF w.inst.pk = 0 THEN << >> ELSE w.versions[w.inst.pk]

\* signals.document_pre_save
document_pre_save(w, o) ==
    IF w.inst.pk = 0
    THEN execute_hooks(w, o, "before_insert")
    ELSE Then([w EXCEPT !.document_old_data[w.inst.pk] =
                            IF w.documents[w.inst.pk].exists
                            THEN w.documents[w.inst.pk].data
                            ELSE EmptyData],
              LAMBDA tracked : execute_hooks(tracked, o, "before_save"))

\* models.Model.save: the INSERT or UPDATE between the two signals
WriteRow(w, full) ==
    IF w.inst.pk = 0
    THEN [w EXCEPT
            !.documents[w.next_pk] =
                [exists |-> TRUE, data |-> w.inst.data,
                 version_number |-> w.inst.version_number,
                 docstatus |-> w.inst.docstatus],
            !.inst.pk = w.next_pk,
            !.next_pk = @ + 1]
    ELSE IF full
    THEN [w EXCEPT
            !.documents[w.inst.pk] =
                [exists |-> TRUE, data |-> w.inst.data,
                 version_number |-> w.inst.version_number,
                 docstatus |-> w.inst.docstatus]]
    ELSE [w EXCEPT !.documents[w.inst.pk].version_number = w.inst.version_number]

\* signals.document_post_save, lines 78-100: the after hooks
post_save_hooks(w, o, created) ==
    IF created
    THEN execute_hooks(w, o, "after_insert")
    ELSE Then(execute_hooks(w, o, "after_save"), LAMBDA w1 :
         Then(IF w1.document_old_data[w1.inst.pk] = NoData
              THEN EmptyData
              ELSE w1.document_old_data[w1.inst.pk], LAMBDA old_data :
         Then(IF old_data # EmptyData /\ ~PyDictEq(old_data, w1.inst.data)
              THEN execute_hooks([w1 EXCEPT !.onChange = TRUE], o, "on_change")
              ELSE w1, LAMBDA w2 :
         [w2 EXCEPT !.document_old_data[w2.inst.pk] = NoData])))

\* a numbering that hands out the latest number again
NextVersionNumber_reused(vs) ==
    IF HasVersions(vs) THEN LatestVersion(vs).version_number ELSE 1

\* new_version_number of VersionEngine.create_version
NextVersionNumber(vs) ==
    IF HasVersions(vs) THEN LatestVersion(vs).version_number + 1 ELSE 1

\* an insert that overwrites the newest row
InsertVersion_overwrite(vs, row) ==
    IF HasVersions(vs) THEN [vs EXCEPT ![Len(vs)] = row] ELSE Append(vs, row)

\* DocumentVersion.objects.create(...) in VersionEngine.create_version
InsertVersion(vs, row) == Append(vs, row)


\* VersionEngine.create_version
create_version(w, o) ==
    IF w.depth >= RecursionLimit /\ w.overflow_at = "create_version"
    THEN [w EXCEPT !.exc = "RecursionError"]
    ELSE Then(w.versions[w.inst.pk], LAMBDA vs :
         Then(NextVersionNumber(vs), LAMBDA number :
         Then(IF HasVersions(vs)
              THEN LatestVersion(vs).data_snapshot
              ELSE EmptyData, LAMBDA old :
         Then([version_number |-> number,
               data_snapshot  |-> w.inst.data,
               changes        |-> calculate_changes(old, w.inst.data)], LAMBDA row :
         Then([w EXCEPT !.versions[w.inst.pk] = InsertVersion(@, row),
                        !.inst.version_number = number], LAMBDA w1 :
         DocumentSave(w1, o, FALSE))))))

\* a receiver that lets the failure of an after hook reach the caller
document_post_save_raising(w, o, created) ==
    Then([w EXCEPT !.afterFailed = FALSE, !.onChange = FALSE], LAMBDA w1 :
    Then(post_save_hooks(w1, o, created), LAMBDA hooked :
    Then(IF hooked.exc # NoExc THEN hooked ELSE create_version(hooked, o), LAMBDA done :
    [done EXCEPT !.exc = IF hooked.afterFailed THEN "HookExecutionError" ELSE NoExc,
                 !.afterFailed = hooked.afterFailed,
                 !.onChange = hooked.onChange])))

\* signals.document_post_save: the after hooks, then the automatic version;
\* whatever is raised is logged and dropped.  afterFailed tells whether a
\* hook of this call failed.
document_post_save(w, o, created) ==
    Then([w EXCEPT !.afterFailed = FALSE, !.onChange = FALSE], LAMBDA w1 :
    Then(post_save_hooks(w1, o, created), LAMBDA hooked :
    Then(IF hooked.exc # NoExc THEN hooked ELSE create_version(hooked, o), LAMBDA done :
    [done EXCEPT !.exc = NoExc, !.afterFailed = hooked.afterFailed,
                 !.onChange = hooked.onChange])))

\* What one call of Document.save did: the exception it raised, whether a
\* hook was dispatched during it, whether a
\* hook of its pre_save or post_save receiver failed, whether it wrote, and
\* whether the row, its data and the version rows are as the call found them,
\* whether its post_save receiver dispatched on_change and whether the data
\* it wrote differ from the data of the row it found
SaveEntry(w0, w, exc, written, dataWritten, bf, af) ==
    [ nested |-> w0.depth > 0, exc |-> exc,
      hooksRun |-> (w.nBefore + w.nAfter) > (w0.nBefore + w0.nAfter),
      beforeFailed |-> bf, afterFailed |-> af, written |-> written,
      rowKept |-> RowOf(w) = RowOf(w0),
      dataKept |-> written /\ RowOf(w).data = dataWritten,
      on_change |-> written /\ w.onChange,
      dataChanged |-> written /\ ~PyDictEq(RowOf(w0).data, dataWritten),
      versionsKept |-> VersionsOf(w) = VersionsOf(w0) ]

Return(w0, w, exc, written, dataWritten, bf, af) ==
    [w EXCEPT !.depth = w0.depth, !.exc = exc,
              !.log = Append(@, SaveEntry(w0, w, exc, written, dataWritten, bf, af))]

\* Document.save: validate_data, then Model.save with its pre_save and
\* post_save receivers.  full is FALSE for save(update_fields=['version_number']).
DocumentSave(w0, o, full) ==
    IF w0.depth >= RecursionLimit
    THEN Return(w0, w0, "RecursionError", FALSE, EmptyData, FALSE, FALSE)
    ELSE
    Then([w0 EXCEPT !.depth = @ + 1, !.beforeFailed = FALSE], LAMBDA entered :
    Then(validate_data(entered.inst.data), LAMBDA invalid :
    IF invalid # NoExc
    THEN Return(w0, entered, invalid, FALSE, EmptyData, FALSE, FALSE)
    ELSE
    Then(document_pre_save(entered, o), LAMBDA pre :
    IF pre.exc # NoExc
    THEN Return(w0, pre, pre.exc, FALSE, EmptyData, pre.beforeFailed, FALSE)
    ELSE
    Then(WriteRow(pre, full), LAMBDA written :
    Then(document_post_save(written, o, pre.inst.pk = 0), LAMBDA done :
    Return(w0, done, done.exc, TRUE, RowOf(written).data,
           pre.beforeFailed, done.afterFailed))))))

----------------------------------------------------------------------------
(* Version engine: lookup and restore *)

NoVersion == [version_number |-> 0, data_snapshot |-> EmptyData,
              changes |-> calculate_changes(EmptyData, EmptyData)]

\* VersionEngine.get_version: the row with that number, NoVersion for None
get_version(vs, version_number) ==
    IF \E i \in 1..Len(vs) : vs[i].version_number = version_number
    THEN vs[CHOOSE i \in 1..Len(vs) : vs[i].version_number = version_number]
    ELSE NoVersion

\* a block that keeps what it wrote when it raises
Atomic_no_rollback(w0, w) == w

\* @transaction.atomic: when the block raises, the rows are as at its start;
\* the module global of signals.py and the instance in memory are not rows
Atomic(w0, w) ==
    IF w.exc = NoExc
    THEN w
    ELSE [w EXCEPT !.documents = w0.documents, !.versions = w0.versions,
                   !.workflow_state = w0.workflow_state, !.next_pk = w0.next_pk]

\* VersionEngine.restore_version
restore_version(w, o, version_number) ==
    Then(get_version(w.versions[w.inst.pk], version_number), LAMBDA version_to_restore :
    IF version_to_restore = NoVersion
    THEN [w EXCEPT !.exc = "ValueError"]
    ELSE
    Then([w EXCEPT !.inst.data = version_to_restore.data_snapshot], LAMBDA copied :
    Then(DocumentSave(copied, o, TRUE), LAMBDA saved :
    IF saved.exc # NoExc
    THEN Atomic(w, saved)
    ELSE Then(create_version(saved, o), LAMBDA versioned : Atomic(w, versioned)))))

----------------------------------------------------------------------------
(* Document deletion *)

\* a foreign key that protects nothing
Protected_nothing(link_rows, pk) == FALSE

\* on_delete=models.PROTECT of DocumentLink.target_document and of
\* DocumentLinkMultiple.target_document: a row refers to the document
Protected(link_rows, pk) == \E l \in link_rows : l.target_document = pk

\* Model.delete: the rows to delete are collected first, and a protected
\* reference raises before any signal is sent; then
\* signals.document_pre_delete, the DELETE and document_post_delete.  The
\* versions, the workflow state and the outgoing links of the document cascade.
DocumentDelete(w, o) ==
    IF Protected(w.links, w.inst.pk)
    THEN Return(w, w, "ProtectedError", FALSE, EmptyData, FALSE, FALSE)
    ELSE
    Then([w EXCEPT !.beforeFailed = FALSE], LAMBDA w1 :
    Then(execute_hooks(w1, o, "before_delete"), LAMBDA pre :
    IF pre.exc # NoExc
    THEN Return(w, pre, pre.exc, FALSE, EmptyData, pre.beforeFailed, FALSE)
    ELSE
    Then([pre EXCEPT !.documents[pre.inst.pk] = NoRow,
                     !.versions[pre.inst.pk] = << >>,
                     !.workflow_state[pre.inst.pk] = "NoState",
                     !.links = {l \in @ : l.source_document # pre.inst.pk},
                     !.afterFailed = FALSE], LAMBDA deleted :
    Then(execute_hooks(deleted, o, "after_delete"), LAMBDA post :
    Return(w, post, NoExc, TRUE, EmptyData, pre.beforeFailed, post.afterFailed)))))

----------------------------------------------------------------------------
(* Workflow engine *)

NoUser == [email |-> "", is_superuser |-> FALSE, groups |-> {}]

Users ==
    { [email |-> "mgr",  is_superuser |-> FALSE, groups |-> {"Manager"}],
      [email |-> "bob",  is_superuser |-> FALSE, groups |-> {}],
      [email |-> "root", is_superuser |-> TRUE,  groups |-> {}] }

Actors == Users \cup {NoUser}

Comments == {"", "ok"}

\* WorkflowState rows of the active workflow; S0 is its initial state
WorkflowStates == {"S0", "S1", "S2"}

InitialState == "S0"

\* WorkflowTransition rows of the active workflow
WorkflowTransitions ==
    { [id |-> 1, from_state |-> "S0", to_state |-> "S1",
       allowed_roles |-> {"Manager"}, condition |-> "",
       require_comment |-> FALSE, actions |-> << >>],
      [id |-> 2, from_state |-> "S1", to_state |-> "S2",
       allowed_roles |-> {}, condition |-> "",
       require_comment |-> TRUE,
       actions |-> << [type |-> "set_field", field |-> "title", value |-> StrV(<<"b">>)] >>],
      [id |-> 3, from_state |-> "S1", to_state |-> "S0",
       allowed_roles |-> {}, condition |-> "data['title'] == 'a'",
       require_comment |-> FALSE, actions |-> << >>] }

\* eval(transition.condition, ..., context): "error" when the expression raises
EvalCondition(condition, data) ==
    IF condition = "data['title'] == 'a'"
    THEN IF ~HasKey(data, "title") THEN "error"
         ELSE IF PyEq(data["title"], StrV(<<"a">>)) THEN "true" ELSE "false"
    ELSE "error"

\* WorkflowEngine.can_transition: (can_transition, reason), or the exception
\* it raises
can_transition(w, transition, user) ==
    LET current_state == w.workflow_state[w.inst.pk]
    IN  IF transition.from_state # current_state
        THEN IF current_state = "NoState"
             THEN [ok |-> FALSE, reason |-> "", exc |-> "AttributeError"]
             ELSE [ok |-> FALSE, reason |-> "Document is in another state",
                   exc |-> NoExc]
        ELSE IF transition.allowed_roles # {} /\ user = NoUser
        THEN [ok |-> FALSE, reason |-> "User not authenticated", exc |-> NoExc]
        ELSE IF /\ transition.allowed_roles # {}
                /\ ~user.is_superuser
                /\ transition.allowed_roles \cap user.groups = {}
        THEN [ok |-> FALSE, reason |-> "User does not have required role(s)",
              exc |-> NoExc]
        ELSE IF transition.condition # ""
                /\ EvalCondition(transition.condition, w.inst.data) = "false"
        THEN [ok |-> FALSE, reason |-> "Transition condition not met", exc |-> NoExc]
        ELSE IF transition.condition # ""
                /\ EvalCondition(transition.condition, w.inst.data) = "error"
        THEN [ok |-> FALSE, reason |-> "Invalid transition condition", exc |-> NoExc]
        ELSE [ok |-> TRUE, reason |-> "", exc |-> NoExc]

\* an entry that records the target state as the state left
HistoryEntry_wrong_from(from_state, to_state, user, comment) ==
    [from_state |-> to_state, to_state |-> to_state,
     changed_by |-> user.email, comment |-> comment]

\* The entry WorkflowEngine._log_transition appends
HistoryEntry(from_state, to_state, user, comment) ==
    [from_state |-> from_state, to_state |-> to_state,
     changed_by |-> user.email, comment |-> comment]

\* WorkflowEngine._log_transition
log_transition(w, o, from_state, to_state, user, comment) ==
    Then(GetKey(w.inst.data, "workflow_history", ListV(<< >>)).v, LAMBDA history :
    Then(HistoryEntry(from_state, to_state, user, comment), LAMBDA entry :
    Then([w EXCEPT !.inst.data =
              SetKey(@, "workflow_history", ListV(Append(history, entry)))], LAMBDA logged :
    DocumentSave(logged, o, TRUE))))

\* WorkflowEngine._execute_actions
RECURSIVE execute_actions(_, _, _, _)
execute_actions(w, o, actions, i) ==
    IF i > Len(actions) \/ w.exc # NoExc
    THEN w
    ELSE Then(actions[i], LAMBDA action :
         Then(IF action.type = "set_field" /\ HasKey(w.inst.data, action.field)
              THEN Then([w EXCEPT !.inst.data = SetKey(@, action.field, action.value)],
                        LAMBDA assigned : DocumentSave(assigned, o, TRUE))
              ELSE w, LAMBDA w1 :
         execute_actions(w1, o, actions, i + 1)))

\* WorkflowEngine.execute_transition after its two checks: the state is read
\* again and updated, the entry is logged, the actions run
apply_transition(w, o, transition, user, comment) ==
    Then(w.workflow_state[w.inst.pk], LAMBDA old_state :
    Then([w EXCEPT !.workflow_state[w.inst.pk] = transition.to_state], LAMBDA moved :
    Then(log_transition(moved, o, old_state, transition.to_state, user, comment),
         LAMBDA logged :
    IF logged.exc # NoExc
    THEN Atomic(w, logged)
    ELSE Then(execute_actions(logged, o, transition.actions, 1),
              LAMBDA acted : Atomic(w, acted)))))

\* WorkflowEngine.execute_transition
execute_transition(w, o, transition, user, comment) ==
    Then(can_transition(w, transition, user), LAMBDA check :
    IF check.exc # NoExc
    THEN [w EXCEPT !.exc = check.exc]
    ELSE IF ~check.ok
    THEN [w EXCEPT !.exc = "WorkflowTransitionDenied"]
    ELSE IF transition.require_comment /\ comment = ""
    THEN [w EXCEPT !.exc = "ValidationError"]
    ELSE apply_transition(w, o, transition, user, comment))

\* WorkflowEngine.get_available_transitions: the transitions it returns
get_available_transitions(w, user) ==
    Then(w.workflow_state[w.inst.pk], LAMBDA current_state :
    IF current_state = "NoState"
    THEN {}
    ELSE Then({t \in WorkflowTransitions : t.from_state = current_state},
              LAMBDA transitions :
         IF user # NoUser /\ ~user.is_superuser
         THEN {t \in transitions :
                  t.allowed_roles = {} \/ t.allowed_roles \cap user.groups # {}}
         ELSE transitions))

\* WorkflowEngine.initialize_workflow
initialize_workflow(w) == [w EXCEPT !.workflow_state[w.inst.pk] = InitialState]

----------------------------------------------------------------------------
(* Requests *)

Payloads == {EmptyData} \cup {[k \in {"title"} |-> StrV(t)] : t \in Titles}

RECURSIVE SumLen(_, _)
SumLen(f, S) ==
    IF S = {} THEN 0
    ELSE LET d == CHOOSE x \in S : TRUE IN Len(f[d]) + SumLen(f, S \ {d})

TotalVersions == SumLen(versions, DOMAIN versions)

\* documents are created while the version table holds fewer rows than
\* MaxVersions for each primary key of the deployment
VersionCapacity == MaxVersions * Cardinality(DOMAIN versions)

FailuresIn(data) == Len(GetKey(data, "hook_failures", ListV(<< >>)).v)

\* the longest hook_failures log on the row or on a version of the document
LoggedFailures(d) ==
    LET lens == {FailuresIn(documents[d].data)} \cup
                {FailuresIn(versions[d][i].data_snapshot) : i \in 1..Len(versions[d])}
    IN  CHOOSE n \in lens : \A m \in lens : m <= n

\* the environment may let a hook fail only while the failure log is short
MayFail(d, o) == NoFailure(o) \/ LoggedFailures(d) < MaxLoggedFailures

NoArg == [none |-> TRUE]

\* The rows and globals a request leaves behind, and what it returned
Finish(w, op, arg) ==
    /\ documents' = w.documents
    /\ versions' = w.versions
    /\ workflow_state' = w.workflow_state
    /\ document_old_data' = w.document_old_data
    /\ next_pk' = w.next_pk
    /\ UNCHANGED overflow_at
    /\ lastOp' = [op |-> op, doc |-> w.inst.pk, exc |-> w.exc, log |-> w.log,
                  arg |-> arg]

\* views.document_create / DynamicDocumentSerializer.create
CreateDocument(payload, o) ==
    /\ next_pk \in DOMAIN documents
    /\ TotalVersions < VersionCapacity
    /\ \E w0 \in {World([pk |-> 0, data |-> payload, version_number |-> 1,
                              docstatus |-> Draft])} :
       \E w \in {DocumentSave(w0, o, TRUE)} :
           Finish(w, "create", [payload |-> payload])
    /\ UNCHANGED <<executed, tampered, links, doctype_row, user_sessions, now, registry>>
    /\ UNCHANGED concurrentVars

\* views.document_edit / DynamicDocumentSerializer.update
UpdateDocument(d, payload, o) ==
    /\ documents[d].exists
    /\ TotalVersions < MaxVersions
    /\ MayFail(d, o)
    /\ \E w0 \in {World([LoadDocument(d) EXCEPT !.data = payload])} :
       \E w \in {DocumentSave(w0, o, TRUE)} :
           Finish(w, "update", [payload |-> payload])
    /\ UNCHANGED <<executed, tampered, links, doctype_row, user_sessions, now, registry>>
    /\ UNCHANGED concurrentVars

\* version_engine.restore_version
RestoreVersion(d, version_number, o) ==
    /\ documents[d].exists
    /\ TotalVersions < MaxVersions
    /\ MayFail(d, o)
    /\ \E w0 \in {World(LoadDocument(d))} :
       \E w \in {restore_version(w0, o, version_number)} :
           Finish(w, "restore", [version_number |-> version_number])
    /\ UNCHANGED <<executed, tampered, links, doctype_row, user_sessions, now, registry>>
    /\ UNCHANGED concurrentVars

\* views.document_delete
DeleteDocument(d, o) ==
    /\ documents[d].exists
    /\ \E w0 \in {World(LoadDocument(d))} :
       \E w \in {DocumentDelete(w0, o)} :
           /\ Finish(w, "delete", NoArg)
           /\ links' = w.links
           /\ UNCHANGED <<doctype_row, user_sessions, now, registry>>
           /\ executed' = IF w.exc = NoExc THEN [executed EXCEPT ![d] = << >>]
                          ELSE executed
           /\ tampered' = IF w.exc = NoExc THEN {x \in tampered : x[1] # d}
                          ELSE tampered
    /\ UNCHANGED concurrentVars

\* workflow_views.initialize_document_workflow
InitializeWorkflow(d) ==
    /\ documents[d].exists
    /\ \E w0 \in {World(LoadDocument(d))} :
       \E w \in {initialize_workflow(w0)} : Finish(w, "initialize", NoArg)
    /\ UNCHANGED <<executed, tampered, links, doctype_row, user_sessions, now, registry>>
    /\ UNCHANGED concurrentVars

\* workflow_views.execute_document_transition
ExecuteTransition(d, transition, user, comment, o) ==
    /\ documents[d].exists
    /\ TotalVersions < MaxVersions
    /\ MayFail(d, o)
    /\ transition.require_comment \/ comment = ""
    /\ \E w0 \in {World(LoadDocument(d))} :
       \E w \in {execute_transition(w0, o, transition, user, comment)} :
           /\ Finish(w, "transition",
                     [transition |-> transition.id, user |-> user.email,
                      comment |-> comment])
           /\ executed' =
                  IF w.exc = NoExc
                  THEN [executed EXCEPT ![d] =
                            Append(@, [from_state |-> transition.from_state,
                                       to_state   |-> transition.to_state,
                                       changed_by |-> user.email,
                                       comment    |-> comment])]
                  ELSE executed
    /\ UNCHANGED <<tampered, links, doctype_row, user_sessions, now, registry>>
    /\ UNCHANGED concurrentVars

\* The workers that serve requests at the same time
Procs == {1, 2}

NoTransition == [id |-> 0, from_state |-> "", to_state |-> "",
                 allowed_roles |-> {}, condition |-> "",
                 require_comment |-> FALSE, actions |-> << >>]

\* A worker that serves no request.  A worker in a request holds the Document
\* or NamingSeries instance it loaded and the values it read.
IdleRequest ==
    [ pc |-> "idle", kind |-> "", inst |-> [pk |-> 0, data |-> EmptyData, version_number |-> 0, docstatus |-> 0],
      transition |-> NoTransition, user |-> NoUser, comment |-> "",
      depth |-> 0, number |-> 0, old |-> EmptyData, inserted |-> {},
      state_at_apply |-> "", committed |-> FALSE, current_value |-> 0 ]

Init ==
    /\ documents = [d \in DocIds |-> NoRow]
    /\ versions = [d \in DocIds |-> << >>]
    /\ workflow_state = [d \in DocIds |-> "NoState"]
    /\ document_old_data = [d \in DocIds |-> NoData]
    /\ next_pk = 1
    /\ overflow_at \in OverflowPlaces
    /\ executed = [d \in DocIds |-> << >>]
    /\ tampered = {}
    /\ links = {}
    /\ doctype_row = NoDoctype
    /\ user_sessions = [s \in SessionIds |-> NoSession]
    /\ now = 0
    /\ registry = [fields |-> SchemaFields, hooks |-> DoctypeHooks]
    /\ inflight = [p \in Procs |-> IdleRequest]
    /\ series_current_value = 0
    /\ allocated = << >>
    /\ lastOp = [op |-> "init", doc |-> 0, exc |-> NoExc, log |-> << >>, arg |-> NoArg]

Next ==
    \/ \E payload \in Payloads, o \in Oracles : CreateDocument(payload, o)
    \/ \E d \in DocIds, payload \in Payloads, o \in Oracles : UpdateDocument(d, payload, o)
    \/ \E d \in DocIds, n \in 1..(MaxVersions + 1), o \in Oracles : RestoreVersion(d, n, o)
    \/ \E d \in DocIds, o \in Oracles : DeleteDocument(d, o)
    \/ \E d \in DocIds : InitializeWorkflow(d)
    \/ \E d \in DocIds, t \in WorkflowTransitions, u \in Actors, c \in Comments,
          o \in Oracles : ExecuteTransition(d, t, u, c, o)

Spec == Init /\ [][Next]_vars

----------------------------------------------------------------------------
(* Reading stored versions, and a store that is altered behind the engine *)

Read(op, d, exc, arg) ==
    /\ lastOp' = [op |-> op, doc |-> d, exc |-> exc, log |-> << >>, arg |-> arg]
    /\ UNCHANGED <<documents, versions, workflow_state, document_old_data, next_pk,
                   overflow_at, executed, tampered, links, doctype_row, user_sessions, now, registry>>
    /\ UNCHANGED concurrentVars

\* VersionEngine.get_version, as compare_versions and get_diff_text call it
GetVersion(d, version_number) ==
    /\ documents[d].exists
    /\ LET version == get_version(versions[d], version_number)
       IN  Read("get_version", d, NoExc,
                [version_number |-> version_number,
                 found |-> version # NoVersion,
                 returned |-> version.data_snapshot])

\* version_views.get_version and version_views.restore_version up to their
\* integrity check: DocumentVersion defines no verify_integrity, the
\* AttributeError is answered with status 500 and nothing is restored
ViewVersion(view, d, version_number) ==
    /\ documents[d].exists
    /\ LET version == get_version(versions[d], version_number)
       IN  Read(view, d,
                IF version = NoVersion THEN "NotFound" ELSE "AttributeError",
                [version_number |-> version_number,
                 found |-> version # NoVersion,
                 returned |-> EmptyData])

\* A stored snapshot is altered without the engine: the title is overwritten
TamperVersion(d, i) ==
    /\ i \in 1..Len(versions[d])
    /\ Cardinality(tampered) < MaxTampered
    /\ <<d, versions[d][i].version_number>> \notin tampered
    /\ versions' = [versions EXCEPT
                        ![d][i].data_snapshot = SetKey(@, "title", StrV(<<"x">>))]
    /\ tampered' = tampered \cup {<<d, versions[d][i].version_number>>}
    /\ lastOp' = [op |-> "tamper", doc |-> d, exc |-> NoExc, log |-> << >>,
                  arg |-> [version_number |-> versions[d][i].version_number]]
    /\ UNCHANGED <<documents, workflow_state, document_old_data, next_pk,
                   overflow_at, executed, links, doctype_row, user_sessions, now, registry>>
    /\ UNCHANGED concurrentVars

\* The version requests of Next with every hook succeeding, the reads, and
\* the altering of a stored snapshot
NextIntegrity ==
    \/ \E payload \in Payloads : CreateDocument(payload, NoHookFails)
    \/ \E d \in DocIds, payload \in Payloads : UpdateDocument(d, payload, NoHookFails)
    \/ \E d \in DocIds, n \in 1..MaxVersions : RestoreVersion(d, n, NoHookFails)
    \/ \E d \in DocIds : DeleteDocument(d, NoHookFails)
    \/ \E d \in DocIds, n \in 1..MaxVersions : GetVersion(d, n)
    \/ \E d \in DocIds, n \in 1..MaxVersions,
          view \in {"view_get_version", "view_restore_version"} : ViewVersion(view, d, n)
    \/ \E d \in DocIds, i \in 1..MaxVersions : TamperVersion(d, i)

SpecIntegrity == Init /\ [][NextIntegrity]_vars

----------------------------------------------------------------------------
(* Requests served at the same time.  A request that writes outside a      *)
(* transaction runs in autocommit: every statement is a step of its own.   *)
(* execute_transition is @transaction.atomic under READ COMMITTED: its     *)
(* checks read what is committed, its writes become visible in one step.   *)
(* Every hook succeeds.                                                     *)

StepOp == [op |-> "step", doc |-> 0, exc |-> NoExc, log |-> << >>, arg |-> NoArg]

\* WorkflowEngine.execute_transition up to its checks, on a freshly loaded
\* document: a refused request ends here
BeginTransition(p, d, transition, user, comment) ==
    /\ inflight[p].pc = "idle"
    /\ documents[d].exists
    /\ TotalVersions < MaxVersions
    /\ transition.require_comment \/ comment = ""
    /\ \E check \in {can_transition(World(LoadDocument(d)), transition, user)} :
           inflight' = [inflight EXCEPT ![p] =
               IF check.exc = NoExc /\ check.ok
                  /\ ~(transition.require_comment /\ comment = "")
               THEN [IdleRequest EXCEPT !.pc = "apply", !.kind = "transition",
                                        !.inst = LoadDocument(d),
                                        !.transition = transition,
                                        !.user = user, !.comment = comment]
               ELSE IdleRequest]
    /\ lastOp' = StepOp
    /\ UNCHANGED <<documents, versions, workflow_state, document_old_data, next_pk,
                   overflow_at, executed, tampered, links, doctype_row, user_sessions, now, registry, series_current_value, allocated>>

\* WorkflowEngine.execute_transition from old_state = self.get_current_state()
\* to the commit; the Document instance is the one loaded before the checks
ApplyTransition(p) ==
    /\ inflight[p].pc = "apply"
    /\ \E w0 \in {World(inflight[p].inst)} :
       \E w \in {apply_transition(w0, NoHookFails, inflight[p].transition,
                                  inflight[p].user, inflight[p].comment)} :
           /\ Finish(w, "transition",
                     [transition |-> inflight[p].transition.id,
                      user |-> inflight[p].user.email,
                      comment |-> inflight[p].comment])
           /\ inflight' = [inflight EXCEPT ![p] =
                  [@ EXCEPT !.pc = "done",
                            !.state_at_apply = workflow_state[inflight[p].inst.pk],
                            !.committed = (w.exc = NoExc)]]
    /\ UNCHANGED <<executed, tampered, links, doctype_row, user_sessions, now, registry, series_current_value, allocated>>

\* views.document_edit: the document is loaded, validated, and Model.save
\* sends pre_save and issues the UPDATE
BeginSave(p, d, payload) ==
    /\ inflight[p].pc = "idle"
    /\ documents[d].exists
    /\ TotalVersions < MaxVersions
    /\ validate_data(payload) = NoExc
    /\ document_old_data' = [document_old_data EXCEPT ![d] = documents[d].data]
    /\ documents' = [documents EXCEPT ![d].data = payload]
    /\ inflight' = [inflight EXCEPT ![p] =
           [IdleRequest EXCEPT !.pc = "post_save", !.kind = "save",
                               !.inst = [LoadDocument(d) EXCEPT !.data = payload],
                               !.depth = 1]]
    /\ lastOp' = StepOp
    /\ UNCHANGED <<versions, workflow_state, next_pk, overflow_at, executed, tampered, links, doctype_row, user_sessions, now, registry,
                   series_current_value, allocated>>

\* signals.document_post_save up to the query of VersionEngine.create_version
\* for the latest version; a RecursionError ends the receiver
PostSaveReadLatest(p) ==
    /\ inflight[p].pc = "post_save"
    /\ document_old_data' = [document_old_data EXCEPT ![inflight[p].inst.pk] = NoData]
    /\ \E vs \in {versions[inflight[p].inst.pk]} :
           inflight' = [inflight EXCEPT ![p] =
               IF inflight[p].depth >= RecursionLimit /\ overflow_at = "create_version"
               THEN [@ EXCEPT !.pc = "done"]
               ELSE [@ EXCEPT !.pc = "insert",
                              !.number = NextVersionNumber(vs),
                              !.old = IF HasVersions(vs)
                                      THEN LatestVersion(vs).data_snapshot
                                      ELSE EmptyData]]
    /\ lastOp' = StepOp
    /\ UNCHANGED <<documents, versions, workflow_state, next_pk, overflow_at, executed,
                   tampered, links, doctype_row, user_sessions, now, registry, series_current_value, allocated>>

\* VersionEngine.create_version from DocumentVersion.objects.create on: the
\* INSERT violates unique_together when the number was taken meanwhile, and
\* the receiver drops the IntegrityError; otherwise the row is inserted and
\* save(update_fields=['version_number']) sends pre_save and issues its UPDATE
InsertVersionRow(p) ==
    /\ inflight[p].pc = "insert"
    /\ \E d \in {inflight[p].inst.pk} :
       \E row \in {[version_number |-> inflight[p].number,
                    data_snapshot  |-> inflight[p].inst.data,
                    changes        |-> calculate_changes(inflight[p].old,
                                                         inflight[p].inst.data)]} :
           IF get_version(versions[d], inflight[p].number) # NoVersion
           THEN /\ inflight' = [inflight EXCEPT ![p].pc = "done"]
                /\ UNCHANGED <<documents, versions, document_old_data>>
           ELSE /\ versions' = [versions EXCEPT ![d] = InsertVersion(@, row)]
                /\ IF inflight[p].depth >= RecursionLimit
                   THEN /\ inflight' = [inflight EXCEPT ![p] =
                               [@ EXCEPT !.pc = "done",
                                         !.inserted = @ \cup {row.version_number},
                                         !.inst.version_number = row.version_number]]
                        /\ UNCHANGED <<documents, document_old_data>>
                   ELSE /\ inflight' = [inflight EXCEPT ![p] =
                               [@ EXCEPT !.pc = "post_save",
                                         !.inserted = @ \cup {row.version_number},
                                         !.inst.version_number = row.version_number,
                                         !.depth = @ + 1]]
                        /\ document_old_data' =
                               [document_old_data EXCEPT ![d] = documents[d].data]
                        /\ documents' = [documents EXCEPT
                               ![d].version_number = row.version_number]
    /\ lastOp' = StepOp
    /\ UNCHANGED <<workflow_state, next_pk, overflow_at, executed, tampered, links, doctype_row, user_sessions, now, registry,
                   series_current_value, allocated>>

\* the response is sent and the worker is free again
EndRequest(p) ==
    /\ inflight[p].pc = "done"
    /\ inflight' = [inflight EXCEPT ![p] = IdleRequest]
    /\ lastOp' = StepOp
    /\ UNCHANGED <<documents, versions, workflow_state, document_old_data, next_pk,
                   overflow_at, executed, tampered, links, doctype_row, user_sessions, now, registry, series_current_value, allocated>>

RECURSIVE Digits(_)
\* str(n) of a natural number, digit by digit
Digits(n) == IF n < 10 THEN <<n>> ELSE Append(Digits(n \div 10), n % 10)

RECURSIVE zfill(_, _)
\* str.zfill(width)
zfill(digits, width) ==
    IF Len(digits) >= width THEN digits ELSE zfill(<<0>> \o digits, width)

\* NamingSeries.prefix of the one naming series
SeriesPrefix == "DOC-"

\* NamingSeries.get_next_value on an instance holding current_value: the value
\* it saves and the name it returns
get_next_value(current_value) ==
    [ current_value |-> current_value + 1,
      name |-> [prefix |-> SeriesPrefix,
                number |-> zfill(Digits(current_value + 1), SeriesPadding)] ]

\* NamingSeries.objects.get(...): a worker loads the series
LoadSeries(p) ==
    /\ inflight[p].pc = "idle"
    /\ Len(allocated) < MaxAllocations
    /\ inflight' = [inflight EXCEPT ![p] =
           [IdleRequest EXCEPT !.pc = "allocate", !.kind = "allocate",
                               !.current_value = series_current_value]]
    /\ lastOp' = StepOp
    /\ UNCHANGED <<documents, versions, workflow_state, document_old_data, next_pk,
                   overflow_at, executed, tampered, links, doctype_row, user_sessions, now, registry, series_current_value, allocated>>

\* NamingSeries.get_next_value on the loaded instance; the worker goes on
\* with the same instance or ends its request
GetNextValue(p, again) ==
    /\ inflight[p].pc = "allocate"
    /\ Len(allocated) < MaxAllocations
    /\ \E next \in {get_next_value(inflight[p].current_value)} :
           /\ series_current_value' = next.current_value
           /\ allocated' = Append(allocated, [name |-> next.name,
                                              counter |-> next.current_value])
           /\ inflight' = [inflight EXCEPT ![p] =
                  IF again THEN [@ EXCEPT !.current_value = next.current_value]
                  ELSE IdleRequest]
    /\ lastOp' = StepOp
    /\ UNCHANGED <<documents, versions, workflow_state, document_old_data, next_pk,
                   overflow_at, executed, tampered, links, doctype_row, user_sessions, now, registry>>

NextConcurrent ==
    \/ \E payload \in Payloads : CreateDocument(payload, NoHookFails)
    \/ \E d \in DocIds : InitializeWorkflow(d)
    \/ \E p \in Procs, d \in DocIds, t \in WorkflowTransitions, u \in Actors,
          c \in Comments : BeginTransition(p, d, t, u, c)
    \/ \E p \in Procs : ApplyTransition(p)
    \/ \E p \in Procs, d \in DocIds, payload \in Payloads : BeginSave(p, d, payload)
    \/ \E p \in Procs : PostSaveReadLatest(p)
    \/ \E p \in Procs : InsertVersionRow(p)
    \/ \E p \in Procs : EndRequest(p)

SpecConcurrent == Init /\ [][NextConcurrent]_vars

\* The workers allocate names from the naming series
NextNaming ==
    \/ \E p \in Procs : LoadSeries(p)
    \/ \E p \in Procs, again \in BOOLEAN : GetNextValue(p, again)

SpecNaming == Init /\ [][NextNaming]_vars

----------------------------------------------------------------------------
(* Links between documents *)

\* the primary keys of a deployment with two documents
LinkDocIds == {1, 2}

\* the doctype of each document: the first document created is an Order, the
\* second a Customer
DoctypeOfDocument == [d \in LinkDocIds |-> IF d = 1 THEN "Order" ELSE "Customer"]

\* Doctype.schema['fields'] of the two doctypes: an Order refers to a Customer
LinkSchemaFields(doctype) ==
    IF doctype = "Order"
    THEN << [name |-> "title", type |-> "string", link_doctype |-> ""],
            [name |-> "ref",   type |-> "link",   link_doctype |-> "Customer"] >>
    ELSE << [name |-> "title", type |-> "string", link_doctype |-> ""] >>

\* the field names a request may name
LinkFields == {"ref", "title"}

\* Document.name: document_create takes it from the first field of the data
NameOf(w, pk) == GetKey(w.documents[pk].data, "title", StrV(<< >>))

\* DocumentLink.save of a new row from w.inst to target: the field must be a
\* link field of the source's doctype and the target of the declared doctype;
\* then the INSERT, and the source document is saved with the target's name
DocumentLink_save(w, o, field_name, target) ==
    Then(LinkSchemaFields(DoctypeOfDocument[w.inst.pk]), LAMBDA fields :
    Then({i \in 1..Len(fields) : fields[i].name = field_name}, LAMBDA found :
    IF found = {}
    THEN [w EXCEPT !.exc = "ValidationError"]
    ELSE Then(fields[CHOOSE i \in found : \A k \in found : i <= k], LAMBDA field_config :
         IF field_config.type # "link"
         THEN [w EXCEPT !.exc = "ValidationError"]
         ELSE IF /\ field_config.link_doctype # ""
                 /\ DoctypeOfDocument[target] # field_config.link_doctype
         THEN [w EXCEPT !.exc = "ValidationError"]
         ELSE Then([w EXCEPT
                      !.links = @ \cup {[model |-> "DocumentLink",
                                         source_document |-> w.inst.pk,
                                         target_document |-> target,
                                         field_name |-> field_name]},
                      !.inst.data = SetKey(@, field_name, NameOf(w, target))],
                   LAMBDA linked : DocumentSave(linked, o, TRUE)))))

\* Document.set_link: the link of the field is deleted, then a new one is
\* created
SetLink(source, field_name, target) ==
    /\ documents[source].exists
    /\ documents[target].exists
    /\ Cardinality(links) < MaxLinks
    /\ Len(versions[source]) < MaxVersions
    /\ \E w0 \in {World(LoadDocument(source))} :
       \E w1 \in {[w0 EXCEPT !.links = {l \in @ : ~(/\ l.model = "DocumentLink"
                                                    /\ l.source_document = source
                                                    /\ l.field_name = field_name)}]} :
       \E w \in {DocumentLink_save(w1, NoHookFails, field_name, target)} :
           /\ Finish(w, "set_link", [field_name |-> field_name, target |-> target])
           /\ links' = w.links
           /\ UNCHANGED <<doctype_row, user_sessions, now, registry>>
    /\ UNCHANGED <<executed, tampered>>
    /\ UNCHANGED concurrentVars

\* DocumentLinkMultiple.objects.create, as the admin site does it
AddLinkMultiple(source, field_name, target) ==
    /\ documents[source].exists
    /\ documents[target].exists
    /\ Cardinality(links) < MaxLinks
    /\ links' = links \cup {[model |-> "DocumentLinkMultiple",
                             source_document |-> source,
                             target_document |-> target, field_name |-> field_name]}
    /\ lastOp' = [op |-> "add_link", doc |-> source, exc |-> NoExc, log |-> << >>,
                  arg |-> [field_name |-> field_name, target |-> target]]
    /\ UNCHANGED <<documents, versions, workflow_state, document_old_data, next_pk,
                   overflow_at, executed, tampered, doctype_row, user_sessions, now, registry>>
    /\ UNCHANGED concurrentVars

InitLinks ==
    /\ documents = [d \in LinkDocIds |-> NoRow]
    /\ versions = [d \in LinkDocIds |-> << >>]
    /\ workflow_state = [d \in LinkDocIds |-> "NoState"]
    /\ document_old_data = [d \in LinkDocIds |-> NoData]
    /\ next_pk = 1
    /\ overflow_at \in OverflowPlaces
    /\ executed = [d \in LinkDocIds |-> << >>]
    /\ tampered = {}
    /\ links = {}
    /\ doctype_row = NoDoctype
    /\ user_sessions = [s \in SessionIds |-> NoSession]
    /\ now = 0
    /\ registry = [fields |-> SchemaFields, hooks |-> DoctypeHooks]
    /\ inflight = [p \in Procs |-> IdleRequest]
    /\ series_current_value = 0
    /\ allocated = << >>
    /\ lastOp = [op |-> "init", doc |-> 0, exc |-> NoExc, log |-> << >>, arg |-> NoArg]

NextLinks ==
    \/ \E payload \in Payloads : CreateDocument(payload, NoHookFails)
    \/ \E s \in LinkDocIds, f \in LinkFields, t \in LinkDocIds : SetLink(s, f, t)
    \/ \E s \in LinkDocIds, f \in LinkFields, t \in LinkDocIds : AddLinkMultiple(s, f, t)
    \/ \E d \in LinkDocIds, o \in Oracles : MayFail(d, o) /\ DeleteDocument(d, o)

SpecLinks == InitLinks /\ [][NextLinks]_vars

----------------------------------------------------------------------------
(* Submission *)

\* The admin change form of a document: docstatus is set and the document saved
SetDocstatus(d, docstatus, o) ==
    /\ documents[d].exists
    /\ TotalVersions < MaxVersions
    /\ MayFail(d, o)
    /\ \E w0 \in {World([LoadDocument(d) EXCEPT !.docstatus = docstatus])} :
       \E w \in {DocumentSave(w0, o, TRUE)} :
           Finish(w, "set_docstatus", [docstatus |-> docstatus])
    /\ UNCHANGED <<executed, tampered, links, doctype_row, user_sessions, now, registry>>
    /\ UNCHANGED concurrentVars

NextSubmission ==
    \/ \E payload \in Payloads, o \in Oracles : CreateDocument(payload, o)
    \/ \E d \in DocIds, payload \in Payloads, o \in Oracles : UpdateDocument(d, payload, o)
    \/ \E d \in DocIds, docstatus \in {Draft, Submitted, Cancelled}, o \in Oracles :
           SetDocstatus(d, docstatus, o)

SpecSubmission == Init /\ [][NextSubmission]_vars

----------------------------------------------------------------------------
(* Doctypes *)

\* Doctype.schema as a client sends it: None, a non-empty list, or a dict
NoneSchema == [kind |-> "none"]

ListSchema == [kind |-> "list"]

DictSchema(entries) == [kind |-> "dict", entries |-> entries]

\* models.py: valid_types of Doctype.validate_schema
ValidTypes ==
    { "string", "text", "integer", "decimal", "boolean", "date", "datetime", "json",
      "link", "select", "multiselect", "table", "file", "image", "email", "phone",
      "url", "color", "rating", "currency", "percent", "duration", "computed" }

\* a validation that asks no target of a link field
ValidateField_any_link(field) ==
    IF "name" \notin DOMAIN field \/ "type" \notin DOMAIN field
    THEN "ValidationError"
    ELSE IF field["type"] \notin ValidTypes
    THEN "ValidationError"
    ELSE IF field["type"] = "computed" /\ "formula" \notin DOMAIN field
    THEN "ValidationError"
    ELSE NoExc

\* Doctype.validate_schema, the body of its loop for one field
ValidateField(field) ==
    IF "name" \notin DOMAIN field \/ "type" \notin DOMAIN field
    THEN "ValidationError"
    ELSE IF field["type"] \notin ValidTypes
    THEN "ValidationError"
    ELSE IF field["type"] = "link" /\ "link_doctype" \notin DOMAIN field
    THEN "ValidationError"
    ELSE IF field["type"] = "computed" /\ "formula" \notin DOMAIN field
    THEN "ValidationError"
    ELSE NoExc

RECURSIVE ValidateFieldsFrom(_, _)
ValidateFieldsFrom(fields, i) ==
    IF i > Len(fields) THEN NoExc
    ELSE Then(ValidateField(fields[i]), LAMBDA raised :
         IF raised # NoExc THEN raised ELSE ValidateFieldsFrom(fields, i + 1))

\* Doctype.validate_schema
validate_schema(schema) ==
    IF schema.kind # "dict" THEN "ValidationError"
    ELSE IF "fields" \notin DOMAIN schema.entries THEN "ValidationError"
    ELSE IF schema.entries["fields"].t # "list" THEN "ValidationError"
    ELSE ValidateFieldsFrom(schema.entries["fields"].v, 1)

\* bool(self.schema): None and the empty dict are false
IsFalsy(schema) ==
    \/ schema.kind = "none"
    \/ schema.kind = "dict" /\ DOMAIN schema.entries = {}

\* Doctype.save, lines 128-132: a missing schema or fields key is filled in
InitializeSchema(schema) ==
    IF IsFalsy(schema)
    THEN DictSchema([k \in {"fields"} |-> ListV(<< >>)])
    ELSE IF schema.kind = "dict" /\ "fields" \notin DOMAIN schema.entries
    THEN DictSchema([k \in (DOMAIN schema.entries) \cup {"fields"} |->
                        IF k = "fields" THEN ListV(<< >>) ELSE schema.entries[k]])
    ELSE schema

\* Doctype.save of an instance with this schema and version: the row it
\* leaves and the exception raised
Doctype_save(row, schema, version) ==
    Then(InitializeSchema(schema), LAMBDA initialized :
    Then(validate_schema(initialized), LAMBDA raised :
    IF raised # NoExc
    THEN [row |-> row, exc |-> raised]
    ELSE [row |-> [exists |-> TRUE, schema |-> initialized, version |-> version],
          exc |-> NoExc]))

\* the field definitions a client may send
FieldConfigs ==
    UNION { [present -> {"f", "string", "link", "computed", "bogus", "Customer", "a+b"}] :
                present \in SUBSET {"name", "type", "link_doctype", "formula"} }

SentFields ==
    { f \in FieldConfigs :
        /\ "name" \in DOMAIN f => f["name"] = "f"
        /\ "type" \in DOMAIN f => f["type"] \in {"string", "link", "computed", "bogus"}
        /\ "link_doctype" \in DOMAIN f => f["link_doctype"] = "Customer"
        /\ "formula" \in DOMAIN f => f["formula"] = "a+b" }

TitleField == [k \in {"name", "type"} |-> IF k = "name" THEN "title" ELSE "string"]

\* the schemas a client may send
SentSchemas ==
    { NoneSchema, ListSchema, DictSchema(EmptyData),
      DictSchema([k \in {"options"} |-> StrV(<<"o">>)]),
      DictSchema([k \in {"fields"} |-> StrV(<<"x">>)]),
      DictSchema([k \in {"fields"} |-> NoneV]),
      DictSchema([k \in {"fields"} |-> ListV(<< >>)]) }
    \cup { DictSchema([k \in {"fields"} |-> ListV(<<f>>)]) : f \in SentFields }
    \cup { DictSchema([k \in {"fields"} |-> ListV(<<TitleField, f>>)]) : f \in SentFields }

\* The admin or the API saves the doctype with a schema: a new Doctype has
\* version 1, a stored one is loaded and keeps the version it has
SaveDoctype(schema) ==
    /\ \E version \in {IF doctype_row.exists THEN doctype_row.version ELSE 1} :
       \E saved \in {Doctype_save(doctype_row, schema, version)} :
           /\ doctype_row' = saved.row
           /\ lastOp' = [op |-> "doctype_save", doc |-> 0, exc |-> saved.exc,
                         log |-> << >>, arg |-> [schema |-> schema]]
    /\ UNCHANGED <<documents, versions, workflow_state, document_old_data, next_pk,
                   overflow_at, executed, tampered, links, user_sessions, now, registry>>
    /\ UNCHANGED concurrentVars

NextDoctype == \E schema \in SentSchemas : SaveDoctype(schema)

SpecDoctype == Init /\ [][NextDoctype]_vars

----------------------------------------------------------------------------
(* The functions on data maps, applied to arbitrary inputs *)

\* Doctype.schema['fields'] of three doctypes
Schemas ==
    { << [name |-> "count", type |-> "integer", required |-> TRUE],
         [name |-> "flag",  type |-> "boolean", required |-> FALSE] >>,
      << [name |-> "flag",  type |-> "boolean", required |-> TRUE],
         [name |-> "count", type |-> "integer", required |-> FALSE] >>,
      << [name |-> "note",  type |-> "string",  required |-> TRUE],
         [name |-> "count", type |-> "integer", required |-> FALSE] >> }

\* values a JSON payload can carry
Values ==
    { IntV(1), BoolV(TRUE), StrV(<<"1", "2">>), StrV(<<"-", "3">>),
      StrV(<<"a">>), NoneV }

\* the JSON objects over a set of keys
DataOver(keys) == UNION { [present -> Values] : present \in SUBSET keys }

\* A call of one of the two functions with its arguments
Calls ==
    { [op |-> "call", doc |-> 0, exc |-> NoExc, log |-> << >>,
       arg |-> [function |-> "validate_data", fields |-> fields, data |-> data]] :
          fields \in Schemas, data \in DataOver({"count", "flag", "note", "extra"}) }
    \cup
    { [op |-> "call", doc |-> 0, exc |-> NoExc, log |-> << >>,
       arg |-> [function |-> "calculate_changes",
                old_data |-> old_data, new_data |-> new_data]] :
          old_data \in DataOver({"a", "b"}), new_data \in DataOver({"a", "b"}) }

InitFunctions ==
    /\ documents = [d \in DocIds |-> NoRow]
    /\ versions = [d \in DocIds |-> << >>]
    /\ workflow_state = [d \in DocIds |-> "NoState"]
    /\ document_old_data = [d \in DocIds |-> NoData]
    /\ next_pk = 1
    /\ overflow_at \in OverflowPlaces
    /\ executed = [d \in DocIds |-> << >>]
    /\ tampered = {}
    /\ links = {}
    /\ doctype_row = NoDoctype
    /\ user_sessions = [s \in SessionIds |-> NoSession]
    /\ now = 0
    /\ registry = [fields |-> SchemaFields, hooks |-> DoctypeHooks]
    /\ inflight = [p \in Procs |-> IdleRequest]
    /\ series_current_value = 0
    /\ allocated = << >>
    /\ lastOp \in Calls

\* document.validate_data() on a document of a doctype with these fields
ValidateData ==
    /\ lastOp.op = "call"
    /\ lastOp.arg.function = "validate_data"
    /\ \E result \in {validate_fields(lastOp.arg.fields, lastOp.arg.data, 1)} :
           lastOp' = [op |-> "validate_data", doc |-> 0, exc |-> result.exc,
                      log |-> << >>,
                      arg |-> [fields |-> lastOp.arg.fields, data |-> lastOp.arg.data,
                               returned |-> result.data]]
    /\ UNCHANGED <<documents, versions, workflow_state, document_old_data,
                   next_pk, overflow_at, executed, tampered, links, doctype_row, user_sessions, now, registry>>
    /\ UNCHANGED concurrentVars

\* engine._calculate_changes(old_data, new_data)
CalculateChanges ==
    /\ lastOp.op = "call"
    /\ lastOp.arg.function = "calculate_changes"
    /\ \E changes \in {calculate_changes(lastOp.arg.old_data, lastOp.arg.new_data)} :
           lastOp' = [op |-> "calculate_changes", doc |-> 0, exc |-> NoExc,
                      log |-> << >>,
                      arg |-> [old_data |-> lastOp.arg.old_data,
                               new_data |-> lastOp.arg.new_data,
                               returned |-> changes]]
    /\ UNCHANGED <<documents, versions, workflow_state, document_old_data,
                   next_pk, overflow_at, executed, tampered, links, doctype_row, user_sessions, now, registry>>
    /\ UNCHANGED concurrentVars

NextFunctions ==
    \/ ValidateData
    \/ CalculateChanges

SpecFunctions == InitFunctions /\ [][NextFunctions]_vars

----------------------------------------------------------------------------
(* Discovery of the transitions open to an actor *)

\* workflow_engine.get_available_transitions(document, user)
GetAvailableTransitions(d, user) ==
    /\ documents[d].exists
    /\ \E w0 \in {World(LoadDocument(d))} :
       \E transitions \in {get_available_transitions(w0, user)} :
           lastOp' = [op |-> "available", doc |-> d, exc |-> NoExc, log |-> << >>,
                      arg |-> [user |-> user.email,
                               returned |-> {t.id : t \in transitions}]]
    /\ UNCHANGED <<documents, versions, workflow_state, document_old_data,
                   next_pk, overflow_at, executed, tampered, links, doctype_row, user_sessions, now, registry>>
    /\ UNCHANGED concurrentVars

\* workflow_views.check_transition_permission: the request carries a
\* transition id and no comment
CheckTransitionPermission(d, transition, user) ==
    /\ documents[d].exists
    /\ \E w0 \in {World(LoadDocument(d))} :
       \E check \in {can_transition(w0, transition, user)} :
           lastOp' = [op |-> "check", doc |-> d, exc |-> check.exc, log |-> << >>,
                      arg |-> [transition |-> transition.id, user |-> user.email,
                               can_transition |-> check.ok,
                               reason |-> check.reason]]
    /\ UNCHANGED <<documents, versions, workflow_state, document_old_data,
                   next_pk, overflow_at, executed, tampered, links, doctype_row, user_sessions, now, registry>>
    /\ UNCHANGED concurrentVars

NextDiscovery ==
    \/ \E payload \in Payloads : CreateDocument(payload, NoHookFails)
    \/ \E d \in DocIds : InitializeWorkflow(d)
    \/ \E d \in DocIds, t \in WorkflowTransitions, u \in Actors, c \in Comments :
           ExecuteTransition(d, t, u, c, NoHookFails)
    \/ \E d \in DocIds, u \in Actors : GetAvailableTransitions(d, u)
    \/ \E d \in DocIds, t \in WorkflowTransitions, u \in Actors :
           CheckTransitionPermission(d, t, u)

SpecDiscovery == Init /\ [][NextDiscovery]_vars

----------------------------------------------------------------------------
(* The hook engine applied to arbitrary tables of hooks *)

\* rows of DoctypeHook: two doctypes, two hook types, equal and different
\* order values, an inactive row, rows with a condition
RegisteredHooks ==
    { HookDef(11, "Document", "before_save", 2, TRUE, ""),
      HookDef(12, "Document", "before_save", 1, TRUE, ""),
      HookDef(13, "Document", "before_save", 1, FALSE, ""),
      HookDef(14, "Other", "before_save", 0, TRUE, ""),
      HookDef(15, "Document", "after_save", 3, TRUE, ""),
      HookDef(16, "Document", "after_save", 1, TRUE, "unmet"),
      HookDef(17, "Document", "after_save", 1, TRUE, "met"),
      HookDef(18, "Document", "after_save", 3, TRUE, "") }

\* what the endpoint of a webhook does during one dispatch: it answers every
\* call well, or one call gets an HTTP error status or no answer at all
HookOracles ==
    Oracles \cup [ phase : {"before", "after"}, at : 1..RecursionLimit,
                   answer : {"http_error"} ]

HookCalls ==
    [ function : {"execute_hooks"}, table : SUBSET RegisteredHooks,
      hook_type : {"before_save", "after_save"}, oracle : HookOracles ]

InitHooks ==
    /\ documents = [d \in DocIds |-> NoRow]
    /\ versions = [d \in DocIds |-> << >>]
    /\ workflow_state = [d \in DocIds |-> "NoState"]
    /\ document_old_data = [d \in DocIds |-> NoData]
    /\ next_pk = 1
    /\ overflow_at = "save"
    /\ executed = [d \in DocIds |-> << >>]
    /\ tampered = {}
    /\ links = {}
    /\ doctype_row = NoDoctype
    /\ user_sessions = [s \in SessionIds |-> NoSession]
    /\ now = 0
    /\ registry = [fields |-> SchemaFields, hooks |-> DoctypeHooks]
    /\ inflight = [p \in Procs |-> IdleRequest]
    /\ series_current_value = 0
    /\ allocated = << >>
    /\ \E call \in HookCalls :
           lastOp = [op |-> "call", doc |-> 0, exc |-> NoExc, log |-> << >>,
                     arg |-> call]

\* HookEngine(document).execute_hooks(hook_type) on a document of doctype
\* "Document"
ExecuteHooks ==
    /\ lastOp.op = "call"
    /\ lastOp.arg.function = "execute_hooks"
    /\ \E hooks \in OrderByOrder(MatchingHooks(lastOp.arg.table, "Document",
                                                lastOp.arg.hook_type)) :
       \E w0 \in {World([pk |-> 0, data |-> [title |-> StrV(<<"a">>)],
                          version_number |-> 1, docstatus |-> Draft])} :
       \E w \in {RunHooks(w0, lastOp.arg.oracle, hooks, 1)} :
           lastOp' = [op |-> "execute_hooks", doc |-> 0, exc |-> w.exc,
                      log |-> << >>,
                      arg |-> [table |-> lastOp.arg.table,
                               hook_type |-> lastOp.arg.hook_type,
                               oracle |-> lastOp.arg.oracle,
                               results |-> w.ran,
                               hook_failures |->
                                   GetKey(w.inst.data, "hook_failures",
                                          ListV(<< >>)).v]]
    /\ UNCHANGED <<documents, versions, workflow_state, document_old_data,
                   next_pk, overflow_at, executed, tampered, links, doctype_row, user_sessions, now, registry>>
    /\ UNCHANGED concurrentVars

NextHooks == ExecuteHooks

SpecHooks == InitHooks /\ [][NextHooks]_vars

----------------------------------------------------------------------------
(* Requests on user sessions *)

SessionFinish(op, exc, arg) ==
    /\ lastOp' = [op |-> op, doc |-> 0, exc |-> exc, log |-> << >>, arg |-> arg]
    /\ UNCHANGED <<documents, versions, workflow_state, document_old_data,
                   next_pk, overflow_at, executed, tampered, links, doctype_row,
                   registry>>
    /\ UNCHANGED concurrentVars

\* views.create_tokens_and_session: UserSession.objects.create with a new
\* refresh token; session s holds session key s and refresh token s
Login(user) ==
    /\ \E s \in SessionIds :
          /\ ~user_sessions[s].exists
          /\ \A r \in SessionIds : r < s => user_sessions[r].exists
          /\ user_sessions' =
                 [user_sessions EXCEPT ![s] =
                     [exists |-> TRUE, user |-> user.email, is_active |-> TRUE,
                      expires_at |-> now + SessionLifetime]]
          /\ SessionFinish("login", NoExc, [user |-> user.email, session |-> s])
    /\ UNCHANGED now

\* views.logout with a session key (0: no key sent)
Logout(user, session_key) ==
    /\ \E found \in {{s \in SessionIds : /\ s = session_key
                                          /\ user_sessions[s].exists
                                          /\ user_sessions[s].user = user.email
                                          /\ user_sessions[s].is_active}} :
          IF found = {}
          THEN /\ UNCHANGED user_sessions
               /\ SessionFinish("logout", NoExc,
                                [user |-> user.email, deactivated |-> 0])
          ELSE /\ user_sessions' =
                      [user_sessions EXCEPT ![session_key] = deactivate(@)]
               /\ SessionFinish("logout", NoExc,
                                [user |-> user.email, deactivated |-> session_key])
    /\ UNCHANGED now

\* UserSession.deactivate on a stored session
Deactivate(s) ==
    /\ user_sessions[s].exists
    /\ user_sessions' = [user_sessions EXCEPT ![s] = deactivate(@)]
    /\ SessionFinish("deactivate", NoExc, [user |-> "", deactivated |-> s])
    /\ UNCHANGED now

\* views.refresh_token; jwt_ok: RefreshToken(refresh_token) accepts the token
RefreshAccessToken(refresh_token, jwt_ok) ==
    /\ \E found \in {{s \in SessionIds : /\ s = refresh_token
                                          /\ user_sessions[s].exists
                                          /\ user_sessions[s].is_active}} :
          SessionFinish("refresh",
                        IF found = {} THEN "401 Invalid refresh token"
                        ELSE IF ~is_valid(user_sessions[refresh_token], now)
                        THEN "401 Session expired"
                        ELSE IF ~jwt_ok THEN "TokenError"
                        ELSE NoExc,
                        [refresh_token |-> refresh_token])
    /\ UNCHANGED <<user_sessions, now>>

\* a day passes
Tick ==
    /\ now < MaxTime
    /\ now' = now + 1
    /\ SessionFinish("tick", NoExc, NoArg)
    /\ UNCHANGED user_sessions

NextSessions ==
    \/ \E u \in Users : Login(u)
    \/ \E u \in Users, k \in SessionIds \cup {0} : Logout(u, k)
    \/ \E s \in SessionIds : Deactivate(s)
    \/ \E t \in SessionIds, jwt_ok \in BOOLEAN : RefreshAccessToken(t, jwt_ok)
    \/ Tick

\* no request on sessions saves a document: one storage oracle is enough
InitSessions ==
    /\ Init
    /\ overflow_at = "save"

SpecSessions == InitSessions /\ [][NextSessions]_vars

----------------------------------------------------------------------------
(* Doctypes with scripted hooks, with a hook whose condition raises, and    *)
(* with an optional field                                                   *)

ScriptHook(id, hook_type, python_code) ==
    [HookDef(id, "Document", hook_type, 0, TRUE, "") EXCEPT !.python_code = python_code]

ScriptCodes == {"data.pop('title', None)", "data['title'] = 'b'", "document.save()"}

\* the DoctypeHook rows of the doctype: none, one python hook, or one webhook
\* whose condition raises when it is evaluated
ScriptedTables ==
    {{}} \cup {{HookDef(23, "Document", "before_save", 0, TRUE, "raises")}}
    \cup {{ScriptHook(21, hook_type, python_code)} :
              hook_type \in {"before_insert", "before_save", "after_save"},
              python_code \in ScriptCodes}

\* a schema whose one field is not required
OptionalFields == << [name |-> "title", type |-> "string", required |-> FALSE] >>

InitScripts ==
    /\ documents = [d \in DocIds |-> NoRow]
    /\ versions = [d \in DocIds |-> << >>]
    /\ workflow_state = [d \in DocIds |-> "NoState"]
    /\ document_old_data = [d \in DocIds |-> NoData]
    /\ next_pk = 1
    /\ overflow_at \in OverflowPlaces
    /\ executed = [d \in DocIds |-> << >>]
    /\ tampered = {}
    /\ links = {}
    /\ doctype_row = NoDoctype
    /\ user_sessions = [s \in SessionIds |-> NoSession]
    /\ now = 0
    /\ registry \in [fields : {SchemaFields, OptionalFields}, hooks : ScriptedTables]
    /\ inflight = [p \in Procs |-> IdleRequest]
    /\ series_current_value = 0
    /\ allocated = << >>
    /\ lastOp = [op |-> "init", doc |-> 0, exc |-> NoExc, log |-> << >>, arg |-> NoArg]

\* hook_engine.execute_before_save_hooks / execute_after_save_hooks on a
\* stored document
ExecuteHooksOf(d, hook_type) ==
    /\ documents[d].exists
    /\ TotalVersions < MaxVersions
    /\ \E w0 \in {World(LoadDocument(d))} :
       \E w \in {execute_hooks(w0, NoHookFails, hook_type)} :
           Finish(w, "execute_hooks", [hook_type |-> hook_type])
    /\ UNCHANGED <<executed, tampered, links, doctype_row, user_sessions, now, registry>>
    /\ UNCHANGED concurrentVars

NextScripts ==
    \/ \E payload \in Payloads, o \in Oracles : CreateDocument(payload, o)
    \/ \E d \in DocIds, payload \in Payloads, o \in Oracles : UpdateDocument(d, payload, o)
    \/ \E d \in DocIds, hook_type \in {"before_save", "after_save"} :
           ExecuteHooksOf(d, hook_type)

SpecScripts == InitScripts /\ [][NextScripts]_vars

----------------------------------------------------------------------------
(* Properties *)

Writes == {"create", "update", "restore"}

LogOf(op) == op.log

Completed(op) == op.exc = NoExc

TransitionOf(op) == CHOOSE t \in WorkflowTransitions : t.id = op.arg.transition

ActorOf(op) == CHOOSE u \in Actors : u.email = op.arg.user

StoredHistory(d) == GetKey(documents[d].data, "workflow_history", ListV(<< >>)).v

IsPrefix(s, t) == Len(s) <= Len(t) /\ SubSeq(t, 1, Len(s)) = s

\* C1: every completed insert or update through Document.save and every
\* completed restore_version adds exactly one DocumentVersion row of the
\* document written
C1_ExactlyOneVersionPerWrite ==
    [][ (lastOp'.op \in Writes /\ Completed(lastOp'))
            => Len(versions'[lastOp'.doc]) = Len(versions[lastOp'.doc]) + 1 ]_vars

\* C2: the version numbers of every document are 1..N in the order the rows
\* were created: they start at 1, have no gap and no repeat, and a newer row
\* has the greater number
C2_VersionNumbersDense ==
    \A d \in DocIds : \A i \in 1..Len(versions[d]) : versions[d][i].version_number = i

C2_Witness ==
    /\ lastOp.op \in {"restore", "transition"}
    /\ Completed(lastOp)
    /\ Len(versions[lastOp.doc]) >= 3

\* C3: after a completed restore_version(v) of an existing version v, the
\* stored data of the document and the data_snapshot of its latest version
\* both equal v's data_snapshot, and the latest version number is greater
\* than every number the document had before
C3_RestoreReproducesSnapshot ==
    [][ (lastOp'.op = "restore" /\ Completed(lastOp'))
            => LET d      == lastOp'.doc
                   v      == get_version(versions[d], lastOp'.arg.version_number)
                   latest == LatestVersion(versions'[d])
               IN  /\ documents'[d].data = v.data_snapshot
                   /\ latest.data_snapshot = v.data_snapshot
                   /\ \A i \in 1..Len(versions[d]) :
                          latest.version_number > versions[d][i].version_number ]_vars

\* C4: no save, restore_version or execute_transition changes or deletes a
\* DocumentVersion row that exists: the rows before the operation are an
\* unchanged prefix of the rows after it
C4_HistoryNeverRewritten ==
    [][ lastOp'.op \in Writes \cup {"transition"}
            => \A d \in DocIds : IsPrefix(versions[d], versions'[d]) ]_vars

C4_Witness ==
    /\ lastOp.op = "restore"
    /\ Completed(lastOp)
    /\ Len(versions[lastOp.doc]) >= 4

\* C5: a Document.save or delete in which a before_insert, before_save or
\* before_delete hook fails raises HookExecutionError, writes nothing and
\* leaves the document row and the DocumentVersion rows as it found them;
\* when it is the save or delete of the request itself, the request fails
\* with HookExecutionError and the stored rows and versions are unchanged
C5_BeforeHookFailureAborts ==
    [][ LET log == LogOf(lastOp')
        IN  /\ \A i \in 1..Len(log) :
                   log[i].beforeFailed
                       => /\ log[i].exc = "HookExecutionError"
                          /\ ~log[i].written
                          /\ log[i].rowKept
                          /\ log[i].versionsKept
            /\ ( /\ lastOp'.op \in {"create", "update", "delete"}
                 /\ \E i \in 1..Len(log) : ~log[i].nested /\ log[i].beforeFailed )
                   => /\ lastOp'.exc = "HookExecutionError"
                      /\ documents' = documents
                      /\ versions' = versions ]_vars

C5_Witness ==
    /\ lastOp.op \in {"update", "delete"}
    /\ lastOp.exc = "HookExecutionError"
    /\ \E i \in 1..Len(lastOp.log) : ~lastOp.log[i].nested /\ lastOp.log[i].beforeFailed
    /\ documents[lastOp.doc].exists

\* C6: a Document.save or delete in which an after_insert, after_save,
\* after_delete or on_change hook fails raises nothing and has written: the
\* row holds the data it wrote (no row after a delete), and a request that is
\* such a save or delete completes
C6_AfterHookFailureKeepsWrite ==
    LET log == LogOf(lastOp)
    IN  /\ \A i \in 1..Len(log) :
               log[i].afterFailed
                   => /\ log[i].exc = NoExc
                      /\ log[i].written
                      /\ log[i].dataKept
        /\ ( /\ lastOp.op \in {"create", "update", "delete"}
             /\ \E i \in 1..Len(log) : ~log[i].nested /\ log[i].afterFailed )
               => /\ Completed(lastOp)
                  /\ documents[lastOp.doc].exists = (lastOp.op # "delete")

C6_Witness ==
    /\ lastOp.op = "update"
    /\ Completed(lastOp)
    /\ \E i \in 1..Len(lastOp.log) : ~lastOp.log[i].nested /\ lastOp.log[i].afterFailed
    /\ documents[lastOp.doc].exists

\* C7: once the data_snapshot of a stored version was altered without the
\* engine, every read of that version and every restore of it fails with an
\* integrity violation, so the altered data is neither returned nor copied
\* onto the document
C7_TamperedVersionNeverServed ==
    ( /\ lastOp.op \in {"get_version", "view_get_version", "view_restore_version",
                        "restore"}
      /\ <<lastOp.doc, lastOp.arg.version_number>> \in tampered )
        => lastOp.exc = "IntegrityViolation"

\* C8: for a transition restricted to roles and an actor who is no superuser
\* and holds none of them, can_transition returns false with a reason, and
\* execute_transition by that actor is refused and leaves the workflow state
C8_RoleRestrictedTransitionRefused ==
    [][ /\ \A d \in DocIds, t \in WorkflowTransitions, u \in Users :
               ( /\ documents[d].exists
                 /\ t.allowed_roles # {}
                 /\ ~u.is_superuser
                 /\ t.allowed_roles \cap u.groups = {} )
                   => LET check == can_transition(World(LoadDocument(d)), t, u)
                      IN  check.exc = NoExc /\ ~check.ok /\ check.reason # ""
        /\ ( /\ lastOp'.op = "transition"
             /\ TransitionOf(lastOp').allowed_roles # {}
             /\ ~ActorOf(lastOp').is_superuser
             /\ TransitionOf(lastOp').allowed_roles \cap ActorOf(lastOp').groups = {} )
               => /\ lastOp'.exc = "WorkflowTransitionDenied"
                  /\ workflow_state' = workflow_state ]_vars

C10_TransitionIsVersioned ==
    [][ (lastOp'.op = "transition" /\ Completed(lastOp'))
            => LET d == lastOp'.doc
               IN  \E i \in (Len(versions[d]) + 1)..Len(versions'[d]) :
                       \/ HasKey(versions'[d][i].changes.added, "workflow_history")
                       \/ HasKey(versions'[d][i].changes.modified, "workflow_history") ]_vars

C10_Witness ==
    /\ lastOp.op = "transition"
    /\ Completed(lastOp)
    /\ \E i \in 1..Len(versions[lastOp.doc]) :
           HasKey(versions[lastOp.doc][i].changes.modified, "workflow_history")

C12_NoTransitionOnStaleState ==
    \A p \in Procs :
        (inflight[p].kind = "transition" /\ inflight[p].committed)
            => inflight[p].transition.from_state = inflight[p].state_at_apply

\* C13: every save of a document that has completed, also next to another
\* save, has inserted a DocumentVersion of its own that holds what it wrote,
\* and no two versions of a document carry the same number
C13_EveryWriteKeepsItsVersion ==
    /\ \A p \in Procs :
           (inflight[p].kind = "save" /\ inflight[p].pc = "done")
               => \E i \in 1..Len(versions[inflight[p].inst.pk]) :
                      /\ versions[inflight[p].inst.pk][i].version_number
                             \in inflight[p].inserted
                      /\ versions[inflight[p].inst.pk][i].data_snapshot
                             = inflight[p].inst.data
    /\ \A d \in DocIds : \A i, j \in 1..Len(versions[d]) :
           i # j => versions[d][i].version_number # versions[d][j].version_number

\* C14: the values get_next_value returned for one series are pairwise
\* distinct and their counters increase strictly in the order of the calls
C14_AllocationsDistinctIncreasing ==
    \A i, j \in 1..Len(allocated) :
        i < j => /\ allocated[i].name # allocated[j].name
                 /\ allocated[i].counter < allocated[j].counter

LacksRequiredField(data) ==
    \E i \in 1..Len(SchemaFields) :
        SchemaFields[i].required /\ SchemaFields[i].name \notin DOMAIN data

\* C15: a Document.save whose payload lacks a required field raises a
\* validation error and does nothing besides: no row is inserted or updated,
\* no hook is dispatched, no receiver runs and no version is created
C15_InvalidPayloadRejected ==
    [][ (lastOp'.op \in {"create", "update"} /\ LacksRequiredField(lastOp'.arg.payload))
            => /\ lastOp'.exc = "ValidationError"
               /\ \A i \in 1..Len(lastOp'.log) :
                      ~lastOp'.log[i].hooksRun /\ ~lastOp'.log[i].written
               /\ UNCHANGED <<documents, versions, workflow_state, next_pk,
                              document_old_data>> ]_vars

C15_Witness ==
    /\ lastOp.op = "update"
    /\ LacksRequiredField(lastOp.arg.payload)
    /\ lastOp.exc = "ValidationError"
    /\ Len(versions[1]) >= 1

\* the integer a value converts to, if it converts
Converts(value) == int(value).ok

IntegerTyped(fields, key) ==
    \E i \in 1..Len(fields) : fields[i].name = key /\ fields[i].type = "integer"

MustReject(fields, data) ==
    \E i \in 1..Len(fields) :
        \/ fields[i].required /\ fields[i].name \notin DOMAIN data
        \/ /\ fields[i].name \in DOMAIN data
           /\ \/ fields[i].type = "integer" /\ ~Converts(data[fields[i].name])
              \/ fields[i].type = "boolean" /\ data[fields[i].name].t # "bool"

\* C16: validate_data rejects a payload exactly when a required field is
\* absent, the value of an integer field does not convert to an integer, or
\* the value of a boolean field is not a boolean; an accepted payload has each
\* value of an integer field replaced by the integer it converts to and every
\* other key, declared or not, as it was
C16_ValidationCoercesIntegers ==
    lastOp.op = "validate_data"
        => LET fields == lastOp.arg.fields
               data   == lastOp.arg.data
           IN  /\ (lastOp.exc = "ValidationError") <=> MustReject(fields, data)
               /\ ~MustReject(fields, data)
                      => lastOp.arg.returned =
                             [k \in DOMAIN data |->
                                 IF IntegerTyped(fields, k)
                                 THEN IntV(int(data[k]).value)
                                 ELSE data[k]]

\* C17: the diff of two data maps has added = the keys only in the new map
\* with their new values, modified = the keys in both maps whose values are
\* unequal with the old and the new value, removed = the keys only in the old
\* map with their old values
C17_DiffIsStructural ==
    lastOp.op = "calculate_changes"
        => LET old == lastOp.arg.old_data
               new == lastOp.arg.new_data
           IN  lastOp.arg.returned =
                   [ added    |-> [k \in (DOMAIN new) \ (DOMAIN old) |-> new[k]],
                     modified |-> [k \in {x \in (DOMAIN new) \cap (DOMAIN old) :
                                              old[x] # new[x]}
                                      |-> [old |-> old[k], new |-> new[k]]],
                     removed  |-> [k \in (DOMAIN old) \ (DOMAIN new) |-> old[k]] ]

\* C18: after every completed write of a document (create, update, restore,
\* transition) the version_number stored on its row is the highest
\* version_number among its DocumentVersions
C18_VersionNumberMirrorsLatest ==
    [][ ( /\ lastOp'.op \in {"create", "update", "restore", "transition"}
          /\ Completed(lastOp')
          /\ documents'[lastOp'.doc].exists
          /\ HasVersions(versions'[lastOp'.doc]) )
            => documents'[lastOp'.doc].version_number
                   = LatestVersion(versions'[lastOp'.doc]).version_number ]_vars

\* C19: deleting a document is a soft delete: the delete operation never
\* removes the document row, and the document stays retrievable by id
C19_DeleteKeepsRow ==
    [][ (lastOp'.op = "delete" /\ Completed(lastOp'))
            => documents'[lastOp'.doc].exists ]_vars

\* C20: a delete of a document that a DocumentLink or a DocumentLinkMultiple
\* has as target is refused, and the document, the links and their source
\* documents all remain
C20_LinkedTargetNotDeleted ==
    [][ ( /\ lastOp'.op = "delete"
          /\ \E l \in links : l.target_document = lastOp'.doc )
            => /\ lastOp'.exc = "ProtectedError"
               /\ UNCHANGED <<documents, versions, links>> ]_vars

C20_Witness ==
    /\ lastOp.op = "delete"
    /\ lastOp.exc = "ProtectedError"
    /\ \E l \in links : /\ l.model = "DocumentLink"
                        /\ l.target_document = lastOp.doc
                        /\ l.source_document # lastOp.doc
    /\ \E l \in links : /\ l.model = "DocumentLinkMultiple"
                        /\ l.target_document = lastOp.doc
    /\ \A d \in LinkDocIds : documents[d].exists

\* the doctype the source's schema declares as target of the field, "" when
\* it declares none
DeclaredTarget(l) ==
    LET fields == LinkSchemaFields(DoctypeOfDocument[l.source_document])
        found  == {i \in 1..Len(fields) :
                       fields[i].name = l.field_name /\ fields[i].type = "link"}
    IN  IF found = {} THEN "" ELSE fields[CHOOSE i \in found : TRUE].link_doctype

\* C21: for every stored DocumentLink and DocumentLinkMultiple the doctype of
\* the target document is the doctype that the schema of the source document
\* declares as link target of the field the link names
C21_LinkTargetsDeclaredDoctype ==
    \A l \in links : DoctypeOfDocument[l.target_document] = DeclaredTarget(l)

\* C22: a Submitted document cannot be submitted again, and a write that
\* changes its data is rejected as long as it has not been cancelled
C22_SubmittedIsFrozen ==
    [][ \A d \in DocIds :
          (documents[d].exists /\ documents[d].docstatus = Submitted)
              => /\ (lastOp'.op = "set_docstatus" /\ lastOp'.doc = d
                        /\ lastOp'.arg.docstatus = Submitted)
                     => ~Completed(lastOp')
                 /\ (lastOp'.op = "update" /\ lastOp'.doc = d
                        /\ lastOp'.arg.payload # documents[d].data)
                     => /\ ~Completed(lastOp')
                        /\ documents'[d].data = documents[d].data ]_vars

FieldsOf(schema) == schema.entries["fields"].v

HasFieldsList(schema) ==
    /\ schema.kind = "dict"
    /\ "fields" \in DOMAIN schema.entries
    /\ schema.entries["fields"].t = "list"

IllFormedField(f) ==
    \/ "name" \notin DOMAIN f
    \/ "type" \notin DOMAIN f
    \/ "type" \in DOMAIN f /\ f["type"] \notin ValidTypes
    \/ "type" \in DOMAIN f /\ f["type"] = "link" /\ "link_doctype" \notin DOMAIN f
    \/ "type" \in DOMAIN f /\ f["type"] = "computed" /\ "formula" \notin DOMAIN f

WellFormed(schema) ==
    /\ HasFieldsList(schema)
    /\ \A i \in 1..Len(FieldsOf(schema)) : ~IllFormedField(FieldsOf(schema)[i])

LacksFieldsKey(schema) ==
    \/ schema.kind = "none"
    \/ schema.kind = "dict" /\ "fields" \notin DOMAIN schema.entries

C24_SchemaChangeRaisesVersion ==
    [][ ( /\ lastOp'.op = "doctype_save"
          /\ Completed(lastOp')
          /\ doctype_row.exists
          /\ doctype_row'.schema # doctype_row.schema )
            => doctype_row'.version > doctype_row.version ]_vars

\* C26: on_change hooks are dispatched only by a save whose written data
\* differ from the data the row held before the write
C26_OnChangeOnlyWhenDataDiffers ==
    [][\A i \in 1..Len(lastOp'.log) :
          lastOp'.log[i].on_change => lastOp'.log[i].dataChanged]_vars

\* C27: after a completed create or update during which an after_* or
\* on_change hook failed, the hook_failures log of the stored document holds
\* an entry for a hook of such a type, and never more than HookFailureLimit
\* entries
C27_AfterFailureStoredOnDocument ==
    ( /\ lastOp.op \in {"create", "update"}
      /\ Completed(lastOp)
      /\ \E i \in 1..Len(lastOp.log) :
             ~lastOp.log[i].nested /\ lastOp.log[i].afterFailed )
        => LET stored == GetKey(documents[lastOp.doc].data, "hook_failures",
                                ListV(<< >>)).v
           IN  /\ \E k \in 1..Len(stored) : ~IsBefore(stored[k].hook_type)
               /\ Len(stored) <= HookFailureLimit

HookOf(id) == CHOOSE h \in RegisteredHooks : h.id = id

\* C25: execute_hooks executes only active hooks of the document's doctype
\* and of the given hook type, each at most once and in ascending order of
\* their order value; when no hook raised, every such hook whose condition is
\* not unmet has been executed
C25_HooksRunInOrder ==
    lastOp.op = "execute_hooks"
        => LET results == lastOp.arg.results
               ids == {results[i].hook_id : i \in 1..Len(results)}
           IN  /\ \A i \in 1..Len(results) :
                      /\ HookOf(results[i].hook_id) \in lastOp.arg.table
                      /\ HookOf(results[i].hook_id).is_active
                      /\ HookOf(results[i].hook_id).doctype = "Document"
                      /\ HookOf(results[i].hook_id).hook_type = lastOp.arg.hook_type
               /\ \A i, j \in 1..Len(results) :
                      i < j => /\ results[i].hook_id # results[j].hook_id
                               /\ HookOf(results[i].hook_id).order
                                      <= HookOf(results[j].hook_id).order
               /\ lastOp.exc = NoExc
                      => \A h \in lastOp.arg.table :
                             ( /\ h.is_active
                               /\ h.doctype = "Document"
                               /\ h.hook_type = lastOp.arg.hook_type
                               /\ h.condition # "unmet" ) => h.id \in ids

\* two hooks of different order have run, lowest first, while the table also
\* holds an inactive hook and a hook of another doctype of the same type
C25_Witness ==
    /\ lastOp.op = "execute_hooks"
    /\ lastOp.arg.hook_type = "before_save"
    /\ lastOp.arg.table = RegisteredHooks
    /\ lastOp.arg.results = << [hook_id |-> 12, success |-> TRUE],
                               [hook_id |-> 11, success |-> TRUE] >>

\* C28: a webhook whose endpoint answers with an HTTP error status is
\* reported as a failed execution: its result has success = FALSE and the
\* failure is in the hook_failures log
C28_HttpErrorIsFailure ==
    ( /\ lastOp.op = "execute_hooks"
      /\ lastOp.arg.oracle.answer = "http_error"
      /\ lastOp.arg.oracle.phase
            = (IF IsBefore(lastOp.arg.hook_type) THEN "before" ELSE "after")
      /\ lastOp.arg.oracle.at <= Len(lastOp.arg.results) )
        => LET result == lastOp.arg.results[lastOp.arg.oracle.at]
           IN  /\ ~result.success
               /\ \E k \in 1..Len(lastOp.arg.hook_failures) :
                      lastOp.arg.hook_failures[k].hook_id = result.hook_id

\* the actor satisfies the role restriction of the transition: there is none,
\* or the actor is authenticated and is a superuser or holds one of the roles
SatisfiesRoles(user, transition) ==
    \/ transition.allowed_roles = {}
    \/ /\ user # NoUser
       /\ user.is_superuser \/ transition.allowed_roles \cap user.groups # {}

\* C29: get_available_transitions returns exactly the transitions that leave
\* the document's current state and whose role restriction the actor
\* satisfies, for every actor, authenticated or not
C29_AvailableTransitionsExact ==
    lastOp.op = "available"
        => LET user == ActorOf(lastOp)
           IN  lastOp.arg.returned
                   = {t.id : t \in {x \in WorkflowTransitions :
                                       /\ x.from_state = workflow_state[lastOp.doc]
                                       /\ SatisfiesRoles(user, x)}}

\* C30: the current state of a document that has a workflow state changes
\* only by a transition request that completed (or goes away with the
\* document)
C30_StateChangesOnlyByTransition ==
    [][\A d \in DocIds :
          ( /\ workflow_state[d] # "NoState"
            /\ workflow_state'[d] # workflow_state[d]
            /\ workflow_state'[d] # "NoState" )
              => lastOp'.op = "transition" /\ Completed(lastOp')]_vars

\* C31: the eligibility check of a transition flagged require_comment, asked
\* without a comment, answers can_transition = FALSE with a reason
C31_RequireCommentIneligible ==
    ( /\ lastOp.op = "check"
      /\ lastOp.exc = NoExc
      /\ TransitionOf(lastOp).require_comment )
        => ~lastOp.arg.can_transition /\ lastOp.arg.reason # ""

\* C39: on a document without a workflow state the eligibility check
\* returns (FALSE, reason) and raises nothing, and a transition request is
\* refused with WorkflowTransitionDenied
C39_UninitializedIsRefused ==
    /\ ( lastOp.op = "check" /\ workflow_state[lastOp.doc] = "NoState" )
          => /\ lastOp.exc = NoExc
             /\ ~lastOp.arg.can_transition
             /\ lastOp.arg.reason # ""
    /\ ( lastOp.op = "transition" /\ workflow_state[lastOp.doc] = "NoState" )
          => lastOp.exc = "WorkflowTransitionDenied"

C34_BookkeepingWriteDoesNotReenter ==
    \A i \in 1..Len(lastOp.log) :
        /\ lastOp.log[i].exc # "RecursionError"
        /\ lastOp.log[i].nested
              => ~lastOp.log[i].hooksRun /\ lastOp.log[i].versionsKept

\* C37: after a completed create or update the data_snapshot of the newest
\* version of the document equals the data of the stored row
C37_NewestSnapshotIsStoredData ==
    ( /\ lastOp.op \in {"create", "update"}
      /\ Completed(lastOp)
      /\ versions[lastOp.doc] # << >> )
        => versions[lastOp.doc][Len(versions[lastOp.doc])].data_snapshot
               = documents[lastOp.doc].data

\* C32: dispatching the hooks of a document, scripted ones included, leaves
\* every document row, version row, workflow state and link as it was
C32_ScriptTouchesOnlyData ==
    [][lastOp'.op = "execute_hooks"
          => /\ documents' = documents
             /\ versions' = versions
             /\ workflow_state' = workflow_state
             /\ links' = links]_vars

\* C35: an update of a document whose doctype has a before_save hook with a
\* condition that raises runs no hook, records no failure and is not aborted
\* by the hook
C35_RaisingConditionSkipsHook ==
    ( /\ lastOp.op = "update"
      /\ \E h \in registry.hooks : h.condition = "raises" )
        => /\ lastOp.exc # "HookExecutionError"
           /\ \A i \in 1..Len(lastOp.log) :
                  ~lastOp.log[i].hooksRun /\ ~lastOp.log[i].beforeFailed
           /\ Completed(lastOp)
                  => /\ documents[lastOp.doc].data = lastOp.arg.payload
                     /\ LoggedFailures(lastOp.doc) = 0

\* an update completed although the doctype has such a hook
C35_Witness ==
    /\ lastOp.op = "update"
    /\ Completed(lastOp)
    /\ \E h \in registry.hooks : h.condition = "raises" /\ IsBefore(h.hook_type)
    /\ documents[lastOp.doc].data = lastOp.arg.payload

\* C36: every update that writes data other than the data the row held
\* dispatches the on_change hooks
C36_ChangeDispatchesOnChange ==
    [][lastOp'.op = "update"
          => \A i \in 1..Len(lastOp'.log) :
                 ( /\ ~lastOp'.log[i].nested
                   /\ lastOp'.log[i].written
                   /\ lastOp'.log[i].dataChanged )
                     => lastOp'.log[i].on_change]_vars

\* C38: the data of every stored document of a doctype whose schema declares
\* title required holds title
C38_StoredDataHasRequiredFields ==
    \A d \in DocIds :
        ( documents[d].exists /\ registry.fields[1].required )
            => registry.fields[1].name \in DOMAIN documents[d].data

\* C40: whenever a document has a workflow state and a non-empty
\* workflow_history, the to_state of the last history entry is the current
\* workflow state of the document
C40_LastEntryNamesCurrentState ==
    \A d \in DocIds :
        ( /\ documents[d].exists
          /\ workflow_state[d] # "NoState"
          /\ StoredHistory(d) # << >> )
            => StoredHistory(d)[Len(StoredHistory(d))].to_state = workflow_state[d]

====
